---- MODULE Spec2Model ----
(***************************************************************************)
(* Hybrid processing router of the Cartesia SSM PoC (hybrid_router.py)     *)
(* with the telemetry providers and the logger of utils.py it calls.       *)
(*                                                                         *)
(* Conventions.  A command text is a sequence of one-character strings.    *)
(* An enum member is the string "Class.NAME"; its .value is looked up in   *)
(* the class's value table, so members and raw strings stay distinct.      *)
(* A Python value is a record tagged by kind: PyNone, PyNum(n), PyStr(s),  *)
(* PyDict(f) with f a function from the keys present to values.            *)
(***************************************************************************)
EXTENDS Integers, Sequences, FiniteSets, TLC

(***************************************************************************)
(* Enumerations, hybrid_router.py:15-44                                    *)
(***************************************************************************)
ProcessingLocation ==
  {"ProcessingLocation.LOCAL", "ProcessingLocation.SERVER",
   "ProcessingLocation.HYBRID", "ProcessingLocation.AUTOMATIC"}

CommandComplexity ==
  {"CommandComplexity.SIMPLE", "CommandComplexity.MODERATE",
   "CommandComplexity.COMPLEX", "CommandComplexity.UNKNOWN"}

NetworkCondition ==
  {"NetworkCondition.EXCELLENT", "NetworkCondition.GOOD", "NetworkCondition.FAIR",
   "NetworkCondition.POOR", "NetworkCondition.OFFLINE", "NetworkCondition.UNKNOWN"}

DeviceResourceState ==
  {"DeviceResourceState.OPTIMAL", "DeviceResourceState.ADEQUATE",
   "DeviceResourceState.CONSTRAINED", "DeviceResourceState.CRITICAL",
   "DeviceResourceState.UNKNOWN"}

\* member.value for the members of the four enums
EnumValue ==
  [m \in ProcessingLocation \cup CommandComplexity \cup NetworkCondition
         \cup DeviceResourceState |->
     CASE m = "ProcessingLocation.LOCAL" -> "local"
       [] m = "ProcessingLocation.SERVER" -> "server"
       [] m = "ProcessingLocation.HYBRID" -> "hybrid"
       [] m = "ProcessingLocation.AUTOMATIC" -> "automatic"
       [] m = "CommandComplexity.SIMPLE" -> "simple"
       [] m = "CommandComplexity.MODERATE" -> "moderate"
       [] m = "CommandComplexity.COMPLEX" -> "complex"
       [] m = "CommandComplexity.UNKNOWN" -> "unknown"
       [] m = "NetworkCondition.EXCELLENT" -> "excellent"
       [] m = "NetworkCondition.GOOD" -> "good"
       [] m = "NetworkCondition.FAIR" -> "fair"
       [] m = "NetworkCondition.POOR" -> "poor"
       [] m = "NetworkCondition.OFFLINE" -> "offline"
       [] m = "NetworkCondition.UNKNOWN" -> "unknown"
       [] m = "DeviceResourceState.OPTIMAL" -> "optimal"
       [] m = "DeviceResourceState.ADEQUATE" -> "adequate"
       [] m = "DeviceResourceState.CONSTRAINED" -> "constrained"
       [] m = "DeviceResourceState.CRITICAL" -> "critical"
       [] m = "DeviceResourceState.UNKNOWN" -> "unknown"]

(***************************************************************************)
(* Python values                                                           *)
(***************************************************************************)
PyNone == [kind |-> "none"]
PyNum(n) == [kind |-> "num", val |-> n]
PyStr(s) == [kind |-> "str", val |-> s]
PyDict(f) == [kind |-> "dict", val |-> f]
EmptyDict == PyDict(<<>>)
PyList(s) == [kind |-> "list", val |-> s]
\* a member of one of the enums
PyMember(m) == [kind |-> "member", val |-> m]
\* a reference to the object the heap holds under id
PyRef(id) == [kind |-> "ref", val |-> id]

\* bool(v) for the kinds of value the router tests
Truthy(v) ==
  CASE v.kind = "none" -> FALSE
    [] v.kind = "num" -> v.val # 0
    [] v.kind = "str" -> v.val # ""
    [] v.kind = "dict" -> DOMAIN v.val # {}

\* d.get(key, default) on a dict value
DictGet(d, key, default) == IF key \in DOMAIN d.val THEN d.val[key] ELSE default

(***************************************************************************)
(* Command texts and str.lower()                                           *)
(***************************************************************************)
UpperLetters ==
  <<"A", "B", "C", "D", "E", "F", "G", "H", "I", "J", "K", "L", "M",
    "N", "O", "P", "Q", "R", "S", "T", "U", "V", "W", "X", "Y", "Z">>

LowerLetters ==
  <<"a", "b", "c", "d", "e", "f", "g", "h", "i", "j", "k", "l", "m",
    "n", "o", "p", "q", "r", "s", "t", "u", "v", "w", "x", "y", "z">>

Digits == {"0", "1", "2", "3", "4", "5", "6", "7", "8", "9"}

LowerChar(c) ==
  IF \E i \in 1..26 : UpperLetters[i] = c
  THEN LowerLetters[CHOOSE i \in 1..26 : UpperLetters[i] = c]
  ELSE c

lower(text) == [i \in 1..Len(text) |-> LowerChar(text[i])]

(***************************************************************************)
(* re.search on the pattern shapes of COMMAND_COMPLEXITY_PATTERNS.  A      *)
(* pattern is a sequence of alternatives (the | of the regex, groups such  *)
(* as (on|off) expanded); an alternative is an optional ^ anchor, literals *)
(* joined by .* and an optional trailing \b.                               *)
(***************************************************************************)
IsWordChar(c) ==
  \/ \E i \in 1..26 : LowerLetters[i] = c \/ UpperLetters[i] = c
  \/ c \in Digits
  \/ c = "_"

\* is position p (1-based) of text a word character; outside the text it is not
WordAt(text, p) == p >= 1 /\ p <= Len(text) /\ IsWordChar(text[p])

\* \b between positions p-1 and p
WordBoundary(text, p) == WordAt(text, p - 1) # WordAt(text, p)

\* the literal occupies positions p .. p+Len(lit)-1 of text
LiteralAt(text, lit, p) ==
  /\ p + Len(lit) - 1 <= Len(text)
  /\ \A k \in 1..Len(lit) : text[p + k - 1] = lit[k]

\* .* matches positions from..to-1: any characters but a newline
DotStar(text, from, to) == \A k \in from..(to - 1) : text[k] # "\n"

RECURSIVE MatchFrom(_, _, _, _)
MatchFrom(text, alt, i, p) ==
  /\ LiteralAt(text, alt.parts[i], p)
  /\ LET e == p + Len(alt.parts[i])
     IN IF i = Len(alt.parts)
        THEN alt.wb => WordBoundary(text, e)
        ELSE \E q \in e..(Len(text) + 1) :
               DotStar(text, e, q) /\ MatchFrom(text, alt, i + 1, q)

\* re.search(pattern, text) is not None
re_search(pattern, text) ==
  \E a \in 1..Len(pattern) :
    \E p \in (IF pattern[a].anchor THEN {1} ELSE 1..(Len(text) + 1)) :
      MatchFrom(text, pattern[a], 1, p)

(***************************************************************************)
(* COMMAND_COMPLEXITY_PATTERNS, hybrid_router.py:47-81                     *)
(***************************************************************************)
SIMPLE_PATTERNS ==
  <<
    \* r"^what time is it"
    <<[anchor |-> TRUE, parts |-> <<<<"w", "h", "a", "t", " ", "t", "i", "m", "e", " ", "i", "s", " ", "i", "t">>>>, wb |-> FALSE]>>,
    \* r"^how are you"
    <<[anchor |-> TRUE, parts |-> <<<<"h", "o", "w", " ", "a", "r", "e", " ", "y", "o", "u">>>>, wb |-> FALSE]>>,
    \* r"^hello|^hi\b"
    <<[anchor |-> TRUE, parts |-> <<<<"h", "e", "l", "l", "o">>>>, wb |-> FALSE],
      [anchor |-> TRUE, parts |-> <<<<"h", "i">>>>, wb |-> TRUE]>>,
    \* r"^thank you"
    <<[anchor |-> TRUE, parts |-> <<<<"t", "h", "a", "n", "k", " ", "y", "o", "u">>>>, wb |-> FALSE]>>,
    \* r"^stop|^cancel|^exit"
    <<[anchor |-> TRUE, parts |-> <<<<"s", "t", "o", "p">>>>, wb |-> FALSE],
      [anchor |-> TRUE, parts |-> <<<<"c", "a", "n", "c", "e", "l">>>>, wb |-> FALSE],
      [anchor |-> TRUE, parts |-> <<<<"e", "x", "i", "t">>>>, wb |-> FALSE]>>,
    \* r"^yes|^no\b"
    <<[anchor |-> TRUE, parts |-> <<<<"y", "e", "s">>>>, wb |-> FALSE],
      [anchor |-> TRUE, parts |-> <<<<"n", "o">>>>, wb |-> TRUE]>>,
    \* r"^turn (on|off)"
    <<[anchor |-> TRUE, parts |-> <<<<"t", "u", "r", "n", " ", "o", "n">>>>, wb |-> FALSE],
      [anchor |-> TRUE, parts |-> <<<<"t", "u", "r", "n", " ", "o", "f", "f">>>>, wb |-> FALSE]>>,
    \* r"^play|^pause|^next|^previous"
    <<[anchor |-> TRUE, parts |-> <<<<"p", "l", "a", "y">>>>, wb |-> FALSE],
      [anchor |-> TRUE, parts |-> <<<<"p", "a", "u", "s", "e">>>>, wb |-> FALSE],
      [anchor |-> TRUE, parts |-> <<<<"n", "e", "x", "t">>>>, wb |-> FALSE],
      [anchor |-> TRUE, parts |-> <<<<"p", "r", "e", "v", "i", "o", "u", "s">>>>, wb |-> FALSE]>>,
    \* r"^volume (up|down)"
    <<[anchor |-> TRUE, parts |-> <<<<"v", "o", "l", "u", "m", "e", " ", "u", "p">>>>, wb |-> FALSE],
      [anchor |-> TRUE, parts |-> <<<<"v", "o", "l", "u", "m", "e", " ", "d", "o", "w", "n">>>>, wb |-> FALSE]>>
  >>

MODERATE_PATTERNS ==
  <<
    \* r"what.*weather"
    <<[anchor |-> FALSE, parts |-> <<<<"w", "h", "a", "t">>, <<"w", "e", "a", "t", "h", "e", "r">>>>, wb |-> FALSE]>>,
    \* r"what.*meeting"
    <<[anchor |-> FALSE, parts |-> <<<<"w", "h", "a", "t">>, <<"m", "e", "e", "t", "i", "n", "g">>>>, wb |-> FALSE]>>,
    \* r"how.*get to"
    <<[anchor |-> FALSE, parts |-> <<<<"h", "o", "w">>, <<"g", "e", "t", " ", "t", "o">>>>, wb |-> FALSE]>>,
    \* r"find.*near me"
    <<[anchor |-> FALSE, parts |-> <<<<"f", "i", "n", "d">>, <<"n", "e", "a", "r", " ", "m", "e">>>>, wb |-> FALSE]>>,
    \* r"set.*reminder|set.*alarm"
    <<[anchor |-> FALSE, parts |-> <<<<"s", "e", "t">>, <<"r", "e", "m", "i", "n", "d", "e", "r">>>>, wb |-> FALSE],
      [anchor |-> FALSE, parts |-> <<<<"s", "e", "t">>, <<"a", "l", "a", "r", "m">>>>, wb |-> FALSE]>>,
    \* r"send.*message|send.*email"
    <<[anchor |-> FALSE, parts |-> <<<<"s", "e", "n", "d">>, <<"m", "e", "s", "s", "a", "g", "e">>>>, wb |-> FALSE],
      [anchor |-> FALSE, parts |-> <<<<"s", "e", "n", "d">>, <<"e", "m", "a", "i", "l">>>>, wb |-> FALSE]>>,
    \* r"search for"
    <<[anchor |-> FALSE, parts |-> <<<<"s", "e", "a", "r", "c", "h", " ", "f", "o", "r">>>>, wb |-> FALSE]>>,
    \* r"calculate|convert"
    <<[anchor |-> FALSE, parts |-> <<<<"c", "a", "l", "c", "u", "l", "a", "t", "e">>>>, wb |-> FALSE],
      [anchor |-> FALSE, parts |-> <<<<"c", "o", "n", "v", "e", "r", "t">>>>, wb |-> FALSE]>>,
    \* r"who is|what is|how (do|does|did)"
    <<[anchor |-> FALSE, parts |-> <<<<"w", "h", "o", " ", "i", "s">>>>, wb |-> FALSE],
      [anchor |-> FALSE, parts |-> <<<<"w", "h", "a", "t", " ", "i", "s">>>>, wb |-> FALSE],
      [anchor |-> FALSE, parts |-> <<<<"h", "o", "w", " ", "d", "o">>>>, wb |-> FALSE],
      [anchor |-> FALSE, parts |-> <<<<"h", "o", "w", " ", "d", "o", "e", "s">>>>, wb |-> FALSE],
      [anchor |-> FALSE, parts |-> <<<<"h", "o", "w", " ", "d", "i", "d">>>>, wb |-> FALSE]>>
  >>

COMPLEX_PATTERNS ==
  <<
    \* r"compare|difference between"
    <<[anchor |-> FALSE, parts |-> <<<<"c", "o", "m", "p", "a", "r", "e">>>>, wb |-> FALSE],
      [anchor |-> FALSE, parts |-> <<<<"d", "i", "f", "f", "e", "r", "e", "n", "c", "e", " ", "b", "e", "t", "w", "e", "e", "n">>>>, wb |-> FALSE]>>,
    \* r"explain|elaborate on"
    <<[anchor |-> FALSE, parts |-> <<<<"e", "x", "p", "l", "a", "i", "n">>>>, wb |-> FALSE],
      [anchor |-> FALSE, parts |-> <<<<"e", "l", "a", "b", "o", "r", "a", "t", "e", " ", "o", "n">>>>, wb |-> FALSE]>>,
    \* r"analyze|predict|forecast"
    <<[anchor |-> FALSE, parts |-> <<<<"a", "n", "a", "l", "y", "z", "e">>>>, wb |-> FALSE],
      [anchor |-> FALSE, parts |-> <<<<"p", "r", "e", "d", "i", "c", "t">>>>, wb |-> FALSE],
      [anchor |-> FALSE, parts |-> <<<<"f", "o", "r", "e", "c", "a", "s", "t">>>>, wb |-> FALSE]>>,
    \* r"summarize|synopsis|summary of"
    <<[anchor |-> FALSE, parts |-> <<<<"s", "u", "m", "m", "a", "r", "i", "z", "e">>>>, wb |-> FALSE],
      [anchor |-> FALSE, parts |-> <<<<"s", "y", "n", "o", "p", "s", "i", "s">>>>, wb |-> FALSE],
      [anchor |-> FALSE, parts |-> <<<<"s", "u", "m", "m", "a", "r", "y", " ", "o", "f">>>>, wb |-> FALSE]>>,
    \* r"relationship between"
    <<[anchor |-> FALSE, parts |-> <<<<"r", "e", "l", "a", "t", "i", "o", "n", "s", "h", "i", "p", " ", "b", "e", "t", "w", "e", "e", "n">>>>, wb |-> FALSE]>>,
    \* r"what would happen if"
    <<[anchor |-> FALSE, parts |-> <<<<"w", "h", "a", "t", " ", "w", "o", "u", "l", "d", " ", "h", "a", "p", "p", "e", "n", " ", "i", "f">>>>, wb |-> FALSE]>>,
    \* r"history of|evolution of"
    <<[anchor |-> FALSE, parts |-> <<<<"h", "i", "s", "t", "o", "r", "y", " ", "o", "f">>>>, wb |-> FALSE],
      [anchor |-> FALSE, parts |-> <<<<"e", "v", "o", "l", "u", "t", "i", "o", "n", " ", "o", "f">>>>, wb |-> FALSE]>>,
    \* r"that|this|it|one|them|those"
    <<[anchor |-> FALSE, parts |-> <<<<"t", "h", "a", "t">>>>, wb |-> FALSE],
      [anchor |-> FALSE, parts |-> <<<<"t", "h", "i", "s">>>>, wb |-> FALSE],
      [anchor |-> FALSE, parts |-> <<<<"i", "t">>>>, wb |-> FALSE],
      [anchor |-> FALSE, parts |-> <<<<"o", "n", "e">>>>, wb |-> FALSE],
      [anchor |-> FALSE, parts |-> <<<<"t", "h", "e", "m">>>>, wb |-> FALSE],
      [anchor |-> FALSE, parts |-> <<<<"t", "h", "o", "s", "e">>>>, wb |-> FALSE]>>,
    \* r"like I mentioned|as I said|earlier|before"
    <<[anchor |-> FALSE, parts |-> <<<<"l", "i", "k", "e", " ", "I", " ", "m", "e", "n", "t", "i", "o", "n", "e", "d">>>>, wb |-> FALSE],
      [anchor |-> FALSE, parts |-> <<<<"a", "s", " ", "I", " ", "s", "a", "i", "d">>>>, wb |-> FALSE],
      [anchor |-> FALSE, parts |-> <<<<"e", "a", "r", "l", "i", "e", "r">>>>, wb |-> FALSE],
      [anchor |-> FALSE, parts |-> <<<<"b", "e", "f", "o", "r", "e">>>>, wb |-> FALSE]>>
  >>

COMMAND_COMPLEXITY_PATTERNS(complexity) ==
  CASE complexity = "CommandComplexity.SIMPLE" -> SIMPLE_PATTERNS
    [] complexity = "CommandComplexity.MODERATE" -> MODERATE_PATTERNS
    [] complexity = "CommandComplexity.COMPLEX" -> COMPLEX_PATTERNS

\* does some pattern of the group match the (lower-cased) text
GroupMatches(complexity, text) ==
  \E k \in 1..Len(COMMAND_COMPLEXITY_PATTERNS(complexity)) :
    re_search(COMMAND_COMPLEXITY_PATTERNS(complexity)[k], text)

\* variant: the groups scanned from simple to complex
ComplexityOrder_SimpleFirst ==
  <<"CommandComplexity.SIMPLE", "CommandComplexity.MODERATE", "CommandComplexity.COMPLEX">>

ComplexityOrder ==
  <<"CommandComplexity.COMPLEX", "CommandComplexity.MODERATE", "CommandComplexity.SIMPLE">>

\* the for loops of lines 88-91 from group g on, then the default of line 94
RECURSIVE ScanGroups(_, _)
ScanGroups(text, g) ==
  IF g > Len(ComplexityOrder)
  THEN "CommandComplexity.MODERATE"
  ELSE IF GroupMatches(ComplexityOrder[g], text)
       THEN ComplexityOrder[g]
       ELSE ScanGroups(text, g + 1)

estimate_command_complexity(command_text) == ScanGroups(lower(command_text), 1)

(***************************************************************************)
(* Command texts the calls are made with                                   *)
(***************************************************************************)
\* "" (the empty command)
CmdEmpty == <<>>
\* 'What time is it?'
CmdWhatTime == <<"W", "h", "a", "t", " ", "t", "i", "m", "e", " ", "i", "s", " ", "i", "t", "?">>
\* 'hello'
CmdHello == <<"h", "e", "l", "l", "o">>
\* 'STOP'
CmdStop == <<"S", "T", "O", "P">>
\* 'exit'
CmdExit == <<"e", "x", "i", "t">>
\* 'turn on'
CmdTurnOn == <<"t", "u", "r", "n", " ", "o", "n">>
\* 'note'
CmdNote == <<"n", "o", "t", "e">>
\* 'No!'
CmdNo == <<"N", "o", "!">>
\* 'what is the weather'
CmdWeather == <<"w", "h", "a", "t", " ", "i", "s", " ", "t", "h", "e", " ", "w", "e", "a", "t", "h", "e", "r">>
\* 'Explain the weather'
CmdExplain == <<"E", "x", "p", "l", "a", "i", "n", " ", "t", "h", "e", " ", "w", "e", "a", "t", "h", "e", "r">>
\* 'high'
CmdHigh == <<"h", "i", "g", "h">>
Commands == {CmdEmpty, CmdWhatTime, CmdHello, CmdStop, CmdExit, CmdTurnOn, CmdNote, CmdNo, CmdWeather, CmdExplain, CmdHigh}

\* estimate_command_complexity tabulated over the command texts in use
CommandComplexityOf == [c \in Commands |-> estimate_command_complexity(c)]

(***************************************************************************)
(* Telemetry providers, utils.py.  The probes' raw readings are inputs,    *)
(* records with a field state: "error" when the probe raised, "ok" with    *)
(* the figures otherwise (battery_percent PyNone when the machine has no   *)
(* battery, a ping time PyNone when that ping failed).  Of the returned    *)
(* records only the keys the router reads are kept (no timestamp,          *)
(* cpu_count, memory_total_mb, power_plugged, avg_ping_ms, ping_results).  *)
(***************************************************************************)
get_device_resource_state(psutil) ==
  IF psutil.state = "error"
  THEN PyDict("error" :> PyStr("psutil failed"))
  ELSE LET resource_state ==
             ("cpu_percent" :> PyNum(psutil.cpu_percent))
             @@ ("memory_available_mb" :> PyNum(psutil.memory_available_mb))
             @@ ("memory_percent" :> PyNum(psutil.memory_percent))
       IN IF psutil.battery_percent.kind # "none"
          THEN PyDict(resource_state @@ ("battery_percent" :> psutil.battery_percent))
          ELSE PyDict(resource_state)

RECURSIVE SumSeq(_)
SumSeq(s) == IF s = <<>> THEN 0 ELSE Head(s) + SumSeq(Tail(s))

IsPingTime(t) == t.kind = "num"

\* variant: no successful ping is reported as the quality "offline"
estimate_network_quality_OfflineLabel(pings) ==
  IF pings.state = "error"
  THEN PyDict(("quality" :> PyStr("unknown")) @@ ("error" :> PyStr("probe failed")))
  ELSE LET ok == SelectSeq(pings.times, IsPingTime)
           ping_results == [i \in 1..Len(ok) |-> ok[i].val]
           total == SumSeq(ping_results)
           n == Len(ping_results)
           quality == IF total < 50 * n THEN "excellent"
                      ELSE IF total < 100 * n THEN "good"
                      ELSE IF total < 200 * n THEN "fair"
                      ELSE "poor"
       IN IF ping_results # <<>>
          THEN PyDict("quality" :> PyStr(quality))
          ELSE PyDict(("quality" :> PyStr("offline"))
                      @@ ("error" :> PyStr("No successful pings")))

estimate_network_quality(pings) ==
  IF pings.state = "error"
  THEN PyDict(("quality" :> PyStr("unknown")) @@ ("error" :> PyStr("probe failed")))
  ELSE LET ok == SelectSeq(pings.times, IsPingTime)
           ping_results == [i \in 1..Len(ok) |-> ok[i].val]
           total == SumSeq(ping_results)
           n == Len(ping_results)
           \* avg_ping = total / n, compared without the division
           quality == IF total < 50 * n THEN "excellent"
                      ELSE IF total < 100 * n THEN "good"
                      ELSE IF total < 200 * n THEN "fair"
                      ELSE "poor"
       IN IF ping_results # <<>>
          THEN PyDict("quality" :> PyStr(quality))
          ELSE PyDict(("quality" :> PyStr("unknown"))
                      @@ ("error" :> PyStr("No successful pings")))

(***************************************************************************)
(* Server-path classifiers, hybrid_router.py:96-139                        *)
(***************************************************************************)
classify_network_condition(network_info) ==
  LET quality == DictGet(network_info, "quality", PyStr("unknown"))
  IN IF quality = PyStr("excellent") THEN "NetworkCondition.EXCELLENT"
     ELSE IF quality = PyStr("good") THEN "NetworkCondition.GOOD"
     ELSE IF quality = PyStr("fair") THEN "NetworkCondition.FAIR"
     ELSE IF quality = PyStr("poor") THEN "NetworkCondition.POOR"
     ELSE IF quality = PyStr("offline") THEN "NetworkCondition.OFFLINE"
     ELSE "NetworkCondition.UNKNOWN"

\* variant: a missing metric counts as 0
classify_device_resource_state_ZeroDefaults(resource_state) ==
  IF "error" \in DOMAIN resource_state.val
  THEN "DeviceResourceState.UNKNOWN"
  ELSE LET cpu_percent == DictGet(resource_state, "cpu_percent", PyNum(0))
           memory_percent == DictGet(resource_state, "memory_percent", PyNum(0))
           memory_available_mb == DictGet(resource_state, "memory_available_mb", PyNum(0))
           battery_percent == DictGet(resource_state, "battery_percent", PyNum(0))
       IN IF \/ (battery_percent.kind # "none" /\ battery_percent.val < 15)
             \/ memory_available_mb.val < 500
          THEN "DeviceResourceState.CRITICAL"
          ELSE IF \/ cpu_percent.val > 80
                  \/ memory_percent.val > 80
                  \/ memory_available_mb.val < 1000
                  \/ (battery_percent.kind # "none" /\ battery_percent.val < 30)
          THEN "DeviceResourceState.CONSTRAINED"
          ELSE IF /\ cpu_percent.val < 30
                  /\ memory_percent.val < 50
                  /\ memory_available_mb.val > 4000
                  /\ (battery_percent.kind = "none" \/ battery_percent.val > 70)
          THEN "DeviceResourceState.OPTIMAL"
          ELSE "DeviceResourceState.ADEQUATE"

\* variant: thresholds compared with <= and >=
classify_device_resource_state_NonStrict(resource_state) ==
  IF "error" \in DOMAIN resource_state.val
  THEN "DeviceResourceState.UNKNOWN"
  ELSE LET cpu_percent == DictGet(resource_state, "cpu_percent", PyNum(50))
           memory_percent == DictGet(resource_state, "memory_percent", PyNum(50))
           memory_available_mb == DictGet(resource_state, "memory_available_mb", PyNum(2000))
           battery_percent == DictGet(resource_state, "battery_percent", PyNum(50))
       IN IF \/ (battery_percent.kind # "none" /\ battery_percent.val <= 15)
             \/ memory_available_mb.val <= 500
          THEN "DeviceResourceState.CRITICAL"
          ELSE IF \/ cpu_percent.val >= 80
                  \/ memory_percent.val > 80
                  \/ memory_available_mb.val < 1000
                  \/ (battery_percent.kind # "none" /\ battery_percent.val < 30)
          THEN "DeviceResourceState.CONSTRAINED"
          ELSE IF /\ cpu_percent.val < 30
                  /\ memory_percent.val < 50
                  /\ memory_available_mb.val > 4000
                  /\ (battery_percent.kind = "none" \/ battery_percent.val >= 70)
          THEN "DeviceResourceState.OPTIMAL"
          ELSE "DeviceResourceState.ADEQUATE"

\* variant: the error marker is not looked at, the defaults of lines 119-122 apply
classify_device_resource_state_NoErrorCheck(resource_state) ==
  IF FALSE
  THEN "DeviceResourceState.UNKNOWN"
  ELSE LET cpu_percent == DictGet(resource_state, "cpu_percent", PyNum(50))
           memory_percent == DictGet(resource_state, "memory_percent", PyNum(50))
           memory_available_mb == DictGet(resource_state, "memory_available_mb", PyNum(2000))
           battery_percent == DictGet(resource_state, "battery_percent", PyNum(50))
       IN IF \/ (battery_percent.kind # "none" /\ battery_percent.val < 15)
             \/ memory_available_mb.val < 500
          THEN "DeviceResourceState.CRITICAL"
          ELSE IF \/ cpu_percent.val > 80
                  \/ memory_percent.val > 80
                  \/ memory_available_mb.val < 1000
                  \/ (battery_percent.kind # "none" /\ battery_percent.val < 30)
          THEN "DeviceResourceState.CONSTRAINED"
          ELSE IF /\ cpu_percent.val < 30
                  /\ memory_percent.val < 50
                  /\ memory_available_mb.val > 4000
                  /\ (battery_percent.kind = "none" \/ battery_percent.val > 70)
          THEN "DeviceResourceState.OPTIMAL"
          ELSE "DeviceResourceState.ADEQUATE"

classify_device_resource_state(resource_state) ==
  IF "error" \in DOMAIN resource_state.val
  THEN "DeviceResourceState.UNKNOWN"
  ELSE LET cpu_percent == DictGet(resource_state, "cpu_percent", PyNum(50))
           memory_percent == DictGet(resource_state, "memory_percent", PyNum(50))
           memory_available_mb == DictGet(resource_state, "memory_available_mb", PyNum(2000))
           battery_percent == DictGet(resource_state, "battery_percent", PyNum(50))
       IN IF \/ (battery_percent.kind # "none" /\ battery_percent.val < 15)
             \/ memory_available_mb.val < 500
          THEN "DeviceResourceState.CRITICAL"
          ELSE IF \/ cpu_percent.val > 80
                  \/ memory_percent.val > 80
                  \/ memory_available_mb.val < 1000
                  \/ (battery_percent.kind # "none" /\ battery_percent.val < 30)
          THEN "DeviceResourceState.CONSTRAINED"
          ELSE IF /\ cpu_percent.val < 30
                  /\ memory_percent.val < 50
                  /\ memory_available_mb.val > 4000
                  /\ (battery_percent.kind = "none" \/ battery_percent.val > 70)
          THEN "DeviceResourceState.OPTIMAL"
          ELSE "DeviceResourceState.ADEQUATE"

(***************************************************************************)
(* Client-path classifiers, hybrid_router.py:142-181.  A classifier gives  *)
(* an enum member, or the name of the exception it raises.  memoryGB is    *)
(* kept in quarters of a GB, so that 0.5 GB is the number 2.               *)
(***************************************************************************)
HalfGB == 2
OneGB == 4
FourGB == 16

\* Python's and / or over comparisons that may raise: "true", "false" or "TypeError"
Lt(v, n) == IF v.kind = "num" THEN (IF v.val < n THEN "true" ELSE "false") ELSE "TypeError"
Gt(v, n) == IF v.kind = "num" THEN (IF v.val > n THEN "true" ELSE "false") ELSE "TypeError"
\* variant: >= taken as >
Ge_Strict(v, n) == IF v.kind = "num" THEN (IF v.val > n THEN "true" ELSE "false") ELSE "TypeError"
Ge(v, n) == IF v.kind = "num" THEN (IF v.val >= n THEN "true" ELSE "false") ELSE "TypeError"
And3(a, b) == IF a = "true" THEN b ELSE a
Or3(a, b) == IF a = "false" THEN b ELSE a
IsNotNone(v) == IF v.kind # "none" THEN "true" ELSE "false"
IsNone(v) == IF v.kind = "none" THEN "true" ELSE "false"

\* variant: a connection type that matches no branch is UNKNOWN
classify_network_condition_from_client_UnmatchedUnknown(client_network_metrics) ==
  IF ~Truthy(client_network_metrics) THEN "NetworkCondition.UNKNOWN"
  ELSE IF client_network_metrics.kind # "dict" THEN "AttributeError"
  ELSE LET effective_type == DictGet(client_network_metrics, "effectiveType", PyNone)
       IN IF effective_type = PyStr("unknown") THEN "NetworkCondition.UNKNOWN"
          ELSE IF effective_type = PyStr("offline") THEN "NetworkCondition.OFFLINE"
          ELSE IF effective_type = PyStr("slow-2g") \/ effective_type = PyStr("2g")
               THEN "NetworkCondition.POOR"
          ELSE IF effective_type = PyStr("3g") THEN "NetworkCondition.FAIR"
          ELSE IF effective_type = PyStr("4g") THEN "NetworkCondition.GOOD"
          ELSE "NetworkCondition.UNKNOWN"

classify_network_condition_from_client(client_network_metrics) ==
  IF ~Truthy(client_network_metrics) THEN "NetworkCondition.UNKNOWN"
  ELSE IF client_network_metrics.kind # "dict" THEN "AttributeError"
  ELSE LET effective_type == DictGet(client_network_metrics, "effectiveType", PyNone)
       IN IF effective_type = PyStr("unknown") THEN "NetworkCondition.UNKNOWN"
          ELSE IF effective_type = PyStr("offline") THEN "NetworkCondition.OFFLINE"
          ELSE IF effective_type = PyStr("slow-2g") \/ effective_type = PyStr("2g")
               THEN "NetworkCondition.POOR"
          ELSE IF effective_type = PyStr("3g") THEN "NetworkCondition.FAIR"
          ELSE IF effective_type = PyStr("4g") THEN "NetworkCondition.GOOD"
          ELSE "NetworkCondition.GOOD"

classify_device_resource_state_from_client(client_metrics) ==
  IF ~Truthy(client_metrics) THEN "DeviceResourceState.UNKNOWN"
  ELSE LET memory == DictGet(client_metrics, "memory", EmptyDict)
           battery_info == DictGet(client_metrics, "battery", EmptyDict)
       IN IF memory.kind # "dict" \/ battery_info.kind # "dict" THEN "AttributeError"
          ELSE LET memory_gb == DictGet(memory, "memoryGB", PyNone)
                   battery_level == DictGet(battery_info, "level", PyNone)
                   critical == Or3(And3(IsNotNone(battery_level), Lt(battery_level, 15)),
                                   And3(IsNotNone(memory_gb), Lt(memory_gb, HalfGB)))
                   constrained == Or3(And3(IsNotNone(battery_level), Lt(battery_level, 30)),
                                      And3(IsNotNone(memory_gb), Lt(memory_gb, OneGB)))
                   optimal == And3(Or3(IsNone(battery_level), Gt(battery_level, 70)),
                                   Or3(IsNone(memory_gb), Ge(memory_gb, FourGB)))
               IN IF critical = "TypeError" THEN "TypeError"
                  ELSE IF critical = "true" THEN "DeviceResourceState.CRITICAL"
                  ELSE IF constrained = "TypeError" THEN "TypeError"
                  ELSE IF constrained = "true" THEN "DeviceResourceState.CONSTRAINED"
                  ELSE IF optimal = "TypeError" THEN "TypeError"
                  ELSE IF optimal = "true" THEN "DeviceResourceState.OPTIMAL"
                  ELSE "DeviceResourceState.ADEQUATE"

(***************************************************************************)
(* log_event, utils.py:38-56.  fs is the state of the log directory:       *)
(* "no_dir" when os.makedirs raises (outside the try), "no_write" when     *)
(* opening or writing the file raises (inside the try, swallowed), "ok"    *)
(* otherwise.  Gives whether the call raised and the lines it appended.    *)
(***************************************************************************)
log_event(event_type, data, fs) ==
  IF fs = "no_dir"
  THEN [raised |-> TRUE, written |-> <<>>]
  ELSE IF fs = "no_write"
  THEN [raised |-> FALSE, written |-> <<>>]
  ELSE [raised |-> FALSE, written |-> <<[event_type |-> event_type, data |-> data]>>]

(***************************************************************************)
(* select_processing_location, hybrid_router.py:183-322.  The outcome of a *)
(* call: the exception raised ("none" when it returned), the returned      *)
(* location and decision_metadata, the functions it called in call order   *)
(* (classifiers, telemetry providers, log_event), the events handed to     *)
(* log_event and the lines written to the log file.                        *)
(***************************************************************************)
Returns(location, decision_metadata, calls, events, written) ==
  [raised |-> "none", location |-> location, decision_metadata |-> decision_metadata,
   calls |-> calls, log_events |-> events, log_written |-> written]

Raises(exception, calls, events, written) ==
  [raised |-> exception, location |-> "none", decision_metadata |-> <<>>,
   calls |-> calls, log_events |-> events, log_written |-> written]

\* variant: the enum looked up by member name, ProcessingLocation[value]
ProcessingLocationOf_ByName(value) ==
  IF value.kind = "str" /\ value.val \in {"LOCAL", "SERVER", "HYBRID", "AUTOMATIC"}
  THEN CHOOSE m \in ProcessingLocation :
         EnumValue[m] = (CASE value.val = "LOCAL" -> "local"
                           [] value.val = "SERVER" -> "server"
                           [] value.val = "HYBRID" -> "hybrid"
                           [] value.val = "AUTOMATIC" -> "automatic")
  ELSE "ValueError"

\* ProcessingLocation(value): the member with that value, or "ValueError"
ProcessingLocationOf(value) ==
  IF value.kind = "str" /\ \E m \in ProcessingLocation : EnumValue[m] = value.val
  THEN CHOOSE m \in ProcessingLocation : EnumValue[m] = value.val
  ELSE "ValueError"

\* variant: an unrecognised forced location falls back to LOCAL
ForcedLocation_InvalidIsLocal(forced_location) ==
  IF Truthy(forced_location)
  THEN IF ProcessingLocationOf(forced_location) = "ValueError"
       THEN "ProcessingLocation.LOCAL"
       ELSE ProcessingLocationOf(forced_location)
  ELSE "ValueError"

\* lines 202-213: the forced location when forced_location is truthy and a
\* venue value, "ValueError" (caught, selection goes on) otherwise
ForcedLocation(forced_location) ==
  IF Truthy(forced_location) THEN ProcessingLocationOf(forced_location) ELSE "ValueError"

\* the decision_metadata dict of the forced return, lines 205-209
ForcedMetadata(forced_loc) ==
  ("decision" :> EnumValue[forced_loc])
  @@ ("reason" :> "Forced by user setting")
  @@ ("decision_time_ms" :> 0)

\* variant: "decision" holds the enum member, not its .value
DecisionMetadata_DecisionMember(location, reason, command_complexity, network_condition, device_state, decision_time) ==
  ("decision" :> location)
  @@ ("reason" :> reason)
  @@ ("command_complexity" :> EnumValue[command_complexity])
  @@ ("network_condition" :> EnumValue[network_condition])
  @@ ("device_state" :> EnumValue[device_state])
  @@ ("decision_time_ms" :> decision_time)

\* the decision_metadata dict of lines 246-253 and its five repetitions
DecisionMetadata(location, reason, command_complexity, network_condition, device_state, decision_time) ==
  ("decision" :> EnumValue[location])
  @@ ("reason" :> reason)
  @@ ("command_complexity" :> EnumValue[command_complexity])
  @@ ("network_condition" :> EnumValue[network_condition])
  @@ ("device_state" :> EnumValue[device_state])
  @@ ("decision_time_ms" :> decision_time)

\* variant: the final fallback sends the command to the server
RoutingRules_DefaultServer(command_complexity, network_condition, device_state) ==
  IF network_condition = "NetworkCondition.OFFLINE"
  THEN <<"ProcessingLocation.LOCAL", "No network connectivity available">>
  ELSE IF /\ device_state = "DeviceResourceState.CRITICAL"
          /\ network_condition \in {"NetworkCondition.EXCELLENT", "NetworkCondition.GOOD"}
  THEN <<"ProcessingLocation.SERVER", "Device resources critically low, good network available">>
  ELSE IF /\ command_complexity = "CommandComplexity.COMPLEX"
          /\ network_condition \in {"NetworkCondition.EXCELLENT", "NetworkCondition.GOOD",
                                    "NetworkCondition.FAIR"}
  THEN <<"ProcessingLocation.SERVER", "Complex command with adequate network">>
  ELSE IF /\ command_complexity = "CommandComplexity.SIMPLE"
          /\ device_state \in {"DeviceResourceState.OPTIMAL", "DeviceResourceState.ADEQUATE"}
  THEN <<"ProcessingLocation.LOCAL", "Simple command with adequate device resources">>
  ELSE IF network_condition \in {"NetworkCondition.EXCELLENT", "NetworkCondition.GOOD"}
  THEN <<"ProcessingLocation.SERVER", "Good network conditions favor server processing">>
  ELSE <<"ProcessingLocation.SERVER", "Default fallback to local for reliability">>

\* variant: no offline step
RoutingRules_NoOfflineStep(command_complexity, network_condition, device_state) ==
  IF /\ device_state = "DeviceResourceState.CRITICAL"
          /\ network_condition \in {"NetworkCondition.EXCELLENT", "NetworkCondition.GOOD"}
  THEN <<"ProcessingLocation.SERVER", "Device resources critically low, good network available">>
  ELSE IF /\ command_complexity = "CommandComplexity.COMPLEX"
          /\ network_condition \in {"NetworkCondition.EXCELLENT", "NetworkCondition.GOOD",
                                    "NetworkCondition.FAIR"}
  THEN <<"ProcessingLocation.SERVER", "Complex command with adequate network">>
  ELSE IF /\ command_complexity = "CommandComplexity.SIMPLE"
          /\ device_state \in {"DeviceResourceState.OPTIMAL", "DeviceResourceState.ADEQUATE"}
  THEN <<"ProcessingLocation.LOCAL", "Simple command with adequate device resources">>
  ELSE IF network_condition \in {"NetworkCondition.EXCELLENT", "NetworkCondition.GOOD"}
  THEN <<"ProcessingLocation.SERVER", "Good network conditions favor server processing">>
  ELSE <<"ProcessingLocation.LOCAL", "Default fallback to local for reliability">>

\* variant: the complexity step before the critical-device step
RoutingRules_ComplexityFirst(command_complexity, network_condition, device_state) ==
  IF network_condition = "NetworkCondition.OFFLINE"
  THEN <<"ProcessingLocation.LOCAL", "No network connectivity available">>
  ELSE IF /\ command_complexity = "CommandComplexity.COMPLEX"
          /\ network_condition \in {"NetworkCondition.EXCELLENT", "NetworkCondition.GOOD",
                                    "NetworkCondition.FAIR"}
  THEN <<"ProcessingLocation.SERVER", "Complex command with adequate network">>
  ELSE IF /\ device_state = "DeviceResourceState.CRITICAL"
          /\ network_condition \in {"NetworkCondition.EXCELLENT", "NetworkCondition.GOOD"}
  THEN <<"ProcessingLocation.SERVER", "Device resources critically low, good network available">>
  ELSE IF /\ command_complexity = "CommandComplexity.SIMPLE"
          /\ device_state \in {"DeviceResourceState.OPTIMAL", "DeviceResourceState.ADEQUATE"}
  THEN <<"ProcessingLocation.LOCAL", "Simple command with adequate device resources">>
  ELSE IF network_condition \in {"NetworkCondition.EXCELLENT", "NetworkCondition.GOOD"}
  THEN <<"ProcessingLocation.SERVER", "Good network conditions favor server processing">>
  ELSE <<"ProcessingLocation.LOCAL", "Default fallback to local for reliability">>

\* variant: the network-quality step before the simple-command step
RoutingRules_NetworkBeforeSimple(command_complexity, network_condition, device_state) ==
  IF network_condition = "NetworkCondition.OFFLINE"
  THEN <<"ProcessingLocation.LOCAL", "No network connectivity available">>
  ELSE IF /\ device_state = "DeviceResourceState.CRITICAL"
          /\ network_condition \in {"NetworkCondition.EXCELLENT", "NetworkCondition.GOOD"}
  THEN <<"ProcessingLocation.SERVER", "Device resources critically low, good network available">>
  ELSE IF /\ command_complexity = "CommandComplexity.COMPLEX"
          /\ network_condition \in {"NetworkCondition.EXCELLENT", "NetworkCondition.GOOD",
                                    "NetworkCondition.FAIR"}
  THEN <<"ProcessingLocation.SERVER", "Complex command with adequate network">>
  ELSE IF network_condition \in {"NetworkCondition.EXCELLENT", "NetworkCondition.GOOD"}
  THEN <<"ProcessingLocation.SERVER", "Good network conditions favor server processing">>
  ELSE IF /\ command_complexity = "CommandComplexity.SIMPLE"
          /\ device_state \in {"DeviceResourceState.OPTIMAL", "DeviceResourceState.ADEQUATE"}
  THEN <<"ProcessingLocation.LOCAL", "Simple command with adequate device resources">>
  ELSE <<"ProcessingLocation.LOCAL", "Default fallback to local for reliability">>

\* variant: the network-quality step accepts a FAIR network
RoutingRules_FairIsGood(command_complexity, network_condition, device_state) ==
  IF network_condition = "NetworkCondition.OFFLINE"
  THEN <<"ProcessingLocation.LOCAL", "No network connectivity available">>
  ELSE IF /\ device_state = "DeviceResourceState.CRITICAL"
          /\ network_condition \in {"NetworkCondition.EXCELLENT", "NetworkCondition.GOOD"}
  THEN <<"ProcessingLocation.SERVER", "Device resources critically low, good network available">>
  ELSE IF /\ command_complexity = "CommandComplexity.COMPLEX"
          /\ network_condition \in {"NetworkCondition.EXCELLENT", "NetworkCondition.GOOD",
                                    "NetworkCondition.FAIR"}
  THEN <<"ProcessingLocation.SERVER", "Complex command with adequate network">>
  ELSE IF /\ command_complexity = "CommandComplexity.SIMPLE"
          /\ device_state \in {"DeviceResourceState.OPTIMAL", "DeviceResourceState.ADEQUATE"}
  THEN <<"ProcessingLocation.LOCAL", "Simple command with adequate device resources">>
  ELSE IF network_condition \in {"NetworkCondition.EXCELLENT", "NetworkCondition.GOOD",
                            "NetworkCondition.FAIR"}
  THEN <<"ProcessingLocation.SERVER", "Good network conditions favor server processing">>
  ELSE <<"ProcessingLocation.LOCAL", "Default fallback to local for reliability">>

\* variant: a CRITICAL device offloads on every network that is not OFFLINE
RoutingRules_CriticalAlwaysOffloads(command_complexity, network_condition, device_state) ==
  IF network_condition = "NetworkCondition.OFFLINE"
  THEN <<"ProcessingLocation.LOCAL", "No network connectivity available">>
  ELSE IF device_state = "DeviceResourceState.CRITICAL"
  THEN <<"ProcessingLocation.SERVER", "Device resources critically low, good network available">>
  ELSE IF /\ command_complexity = "CommandComplexity.COMPLEX"
          /\ network_condition \in {"NetworkCondition.EXCELLENT", "NetworkCondition.GOOD",
                                    "NetworkCondition.FAIR"}
  THEN <<"ProcessingLocation.SERVER", "Complex command with adequate network">>
  ELSE IF /\ command_complexity = "CommandComplexity.SIMPLE"
          /\ device_state \in {"DeviceResourceState.OPTIMAL", "DeviceResourceState.ADEQUATE"}
  THEN <<"ProcessingLocation.LOCAL", "Simple command with adequate device resources">>
  ELSE IF network_condition \in {"NetworkCondition.EXCELLENT", "NetworkCondition.GOOD"}
  THEN <<"ProcessingLocation.SERVER", "Good network conditions favor server processing">>
  ELSE <<"ProcessingLocation.LOCAL", "Default fallback to local for reliability">>

\* Steps 1-5 and the default, lines 243-322: the location and the reason
RoutingRules(command_complexity, network_condition, device_state) ==
  IF network_condition = "NetworkCondition.OFFLINE"
  THEN <<"ProcessingLocation.LOCAL", "No network connectivity available">>
  ELSE IF /\ device_state = "DeviceResourceState.CRITICAL"
          /\ network_condition \in {"NetworkCondition.EXCELLENT", "NetworkCondition.GOOD"}
  THEN <<"ProcessingLocation.SERVER", "Device resources critically low, good network available">>
  ELSE IF /\ command_complexity = "CommandComplexity.COMPLEX"
          /\ network_condition \in {"NetworkCondition.EXCELLENT", "NetworkCondition.GOOD",
                                    "NetworkCondition.FAIR"}
  THEN <<"ProcessingLocation.SERVER", "Complex command with adequate network">>
  ELSE IF /\ command_complexity = "CommandComplexity.SIMPLE"
          /\ device_state \in {"DeviceResourceState.OPTIMAL", "DeviceResourceState.ADEQUATE"}
  THEN <<"ProcessingLocation.LOCAL", "Simple command with adequate device resources">>
  ELSE IF network_condition \in {"NetworkCondition.EXCELLENT", "NetworkCondition.GOOD"}
  THEN <<"ProcessingLocation.SERVER", "Good network conditions favor server processing">>
  ELSE <<"ProcessingLocation.LOCAL", "Default fallback to local for reliability">>

\* variant: an empty client_metrics mapping counts as supplied
ClassifyTelemetry_EmptyIsSupplied(client_metrics, psutil, pings) ==
  IF client_metrics.kind = "dict"
  THEN LET network_condition ==
             classify_network_condition_from_client(
               DictGet(client_metrics, "network", PyNone))
       IN IF network_condition \notin NetworkCondition
          THEN [raised |-> network_condition,
                calls |-> <<"classify_network_condition_from_client">>]
          ELSE [raised |-> "none",
                metrics_source |-> "client",
                network_condition |-> network_condition,
                device_state |-> classify_device_resource_state_from_client(client_metrics),
                calls |-> <<"classify_network_condition_from_client",
                            "classify_device_resource_state_from_client">>]
  ELSE [raised |-> "none",
        metrics_source |-> "server",
        network_condition |-> classify_network_condition(estimate_network_quality(pings)),
        device_state |-> classify_device_resource_state(get_device_resource_state(psutil)),
        calls |-> <<"get_device_resource_state", "estimate_network_quality",
                    "classify_network_condition", "classify_device_resource_state">>]

\* lines 217-229: the network condition and the device state (or the name of
\* the exception raised) and the functions called to get them
ClassifyTelemetry(client_metrics, psutil, pings) ==
  IF Truthy(client_metrics)
  THEN LET network_condition ==
             classify_network_condition_from_client(
               DictGet(client_metrics, "network", PyNone))
       IN IF network_condition \notin NetworkCondition
          THEN [raised |-> network_condition,
                calls |-> <<"classify_network_condition_from_client">>]
          ELSE [raised |-> "none",
                metrics_source |-> "client",
                network_condition |-> network_condition,
                device_state |-> classify_device_resource_state_from_client(client_metrics),
                calls |-> <<"classify_network_condition_from_client",
                            "classify_device_resource_state_from_client">>]
  ELSE [raised |-> "none",
        metrics_source |-> "server",
        network_condition |-> classify_network_condition(estimate_network_quality(pings)),
        device_state |-> classify_device_resource_state(get_device_resource_state(psutil)),
        calls |-> <<"get_device_resource_state", "estimate_network_quality",
                    "classify_network_condition", "classify_device_resource_state">>]

select_processing_location(command_text, context, forced_location, client_metrics, psutil, pings, fs, elapsed) ==
  LET forced_loc == ForcedLocation(forced_location)
  IN IF forced_loc # "ValueError"
     THEN Returns(forced_loc, ForcedMetadata(forced_loc), <<>>, <<>>, <<>>)
     ELSE
       LET telemetry == ClassifyTelemetry(client_metrics, psutil, pings)
       IN IF telemetry.raised # "none"
          THEN Raises(telemetry.raised, telemetry.calls, <<>>, <<>>)
          ELSE IF telemetry.device_state \notin DeviceResourceState
          THEN Raises(telemetry.device_state, telemetry.calls, <<>>, <<>>)
          ELSE
            LET network_condition == telemetry.network_condition
                device_state == telemetry.device_state
                command_complexity == CommandComplexityOf[command_text]
                data == [metrics_source |-> telemetry.metrics_source,
                         command_complexity |-> EnumValue[command_complexity],
                         network_condition |-> EnumValue[network_condition],
                         device_state |-> EnumValue[device_state],
                         has_context |-> context.kind # "none"]
                events == <<[event_type |-> "processing_location_context", data |-> data]>>
                logged == log_event("processing_location_context", data, fs)
                calls == telemetry.calls \o <<"estimate_command_complexity", "log_event">>
                rule == RoutingRules(command_complexity, network_condition, device_state)
            IN IF logged.raised
               THEN Raises("OSError", calls, events, logged.written)
               ELSE Returns(rule[1],
                            DecisionMetadata(rule[1], rule[2], command_complexity,
                                             network_condition, device_state, elapsed),
                            calls, events, logged.written)

(***************************************************************************)
(* Inputs of the calls                                                     *)
(***************************************************************************)
Contexts == {PyNone, PyDict("history" :> PyStr(""))}

ForcedLocations ==
  {PyNone, PyStr(""), PyStr("local"), PyStr("server"), PyStr("hybrid"),
   PyStr("automatic"), PyStr("bogus")}

\* the value under the key "network" of the client telemetry; Absent: no such key
Absent == [kind |-> "absent"]

ClientNetworks ==
  {Absent, PyNone, EmptyDict, PyDict("rtt" :> PyNum(50))}
  \cup {PyDict("effectiveType" :> PyStr(t)) :
          t \in {"offline", "slow-2g", "2g", "3g", "4g", "wifi", "unknown"}}

\* the values under the keys "memory" and "battery" (memoryGB in quarters of a GB)
ClientDevices ==
  {<<PyDict("memoryGB" :> PyNum(32)), PyDict("level" :> PyNum(80))>>,
   <<PyDict("memoryGB" :> PyNum(8)), PyDict("level" :> PyNum(50))>>,
   <<Absent, PyDict("level" :> PyNum(20))>>,
   <<PyDict("memoryGB" :> PyNum(1)), Absent>>,
   <<PyDict("memoryGB" :> PyNum(32)), PyDict("level" :> PyNum(10))>>,
   <<EmptyDict, EmptyDict>>,
   <<PyNone, PyDict("level" :> PyNum(50))>>,
   <<PyDict("memoryGB" :> PyStr("unknown")), PyDict("level" :> PyNum(50))>>}

\* a dict of the keys whose value is not Absent
DictOf(keys, value) == PyDict([k \in {j \in keys : value[j] # Absent} |-> value[k]])

ClientMetricsDict(network, memory, battery) ==
  DictOf({"network", "memory", "battery", "cpu"},
         ("network" :> network) @@ ("memory" :> memory) @@ ("battery" :> battery)
         @@ ("cpu" :> PyDict("load" :> PyStr("unknown"))))

ClientMetrics ==
  {PyNone, EmptyDict}
  \cup {ClientMetricsDict(n, d[1], d[2]) : n \in ClientNetworks, d \in ClientDevices}

Unread == [state |-> "unread"]

PsutilReading(cpu, mem, avail, battery) ==
  [state |-> "ok", cpu_percent |-> cpu, memory_percent |-> mem,
   memory_available_mb |-> avail, battery_percent |-> battery]

PsutilReadings ==
  {[state |-> "error"],
   PsutilReading(20, 40, 5000, PyNone),
   PsutilReading(20, 40, 5000, PyNum(80)),
   PsutilReading(50, 60, 2000, PyNum(50)),
   PsutilReading(90, 60, 2000, PyNum(50)),
   PsutilReading(20, 40, 5000, PyNum(20)),
   PsutilReading(20, 40, 400, PyNum(80)),
   PsutilReading(90, 90, 100, PyNum(10)),
   PsutilReading(50, 60, 700, PyNone)}

PingReading(t1, t2, t3) == [state |-> "ok", times |-> <<t1, t2, t3>>]

PingReadings ==
  {[state |-> "error"],
   PingReading(PyNone, PyNone, PyNone),
   PingReading(PyNum(20), PyNum(30), PyNum(40)),
   PingReading(PyNum(20), PyNum(30), PyNum(100)),
   PingReading(PyNum(60), PyNone, PyNum(80)),
   PingReading(PyNum(150), PyNum(150), PyNum(150)),
   PingReading(PyNum(300), PyNone, PyNone)}

FsStates == {"ok", "no_dir", "no_write"}

\* milliseconds the clock advances during a call
ElapsedMs == {0, 3}

(***************************************************************************)
(* State: where the caller is, the call it made (arguments and the         *)
(* readings the call obtained), and the call's outcome.                    *)
(***************************************************************************)
VARIABLES pc, call, result, heap, conversation_context, loaded_models, threads, log_file

vars == <<pc, call, result, heap, conversation_context, loaded_models, threads, log_file>>

\* the conversation context objects alive, by object id, and the caller's
\* reference to its conversation context
conversation == <<heap, conversation_context>>

EmptyHeap == [id \in {} |-> EmptyDict]

\* the rest of the process: the model cache of model_loader.py, the threads
\* running calls of the core concurrently (none unless a specification starts
\* them) and the lines of the log file
process_state == <<loaded_models, threads, log_file>>

NoModels == [name \in {} |-> EmptyDict]
NoThreads == [t \in {} |-> EmptyDict]

NoCall == [made |-> FALSE]
NoResult == [raised |-> "no call"]

Init ==
  /\ pc = "idle"
  /\ call = NoCall
  /\ result = NoResult
  /\ heap = EmptyHeap
  /\ conversation_context = PyNone
  /\ loaded_models = NoModels
  /\ threads = NoThreads
  /\ log_file = <<>>

\* what a call with these arguments consumes, found by running it on fixed readings
DryRun(command_text, context, forced_location, client_metrics) ==
  select_processing_location(command_text, context, forced_location, client_metrics,
                             [state |-> "error"], [state |-> "error"], "ok", 0)

Range(s) == {s[i] : i \in DOMAIN s}

\* One call of select_processing_location.  The probes are read and the log
\* directory touched only by a call that gets to them.
SelectProcessingLocation ==
  /\ pc = "idle"
  /\ \E command_text \in Commands, context \in Contexts,
        forced_location \in ForcedLocations, client_metrics \in ClientMetrics :
       LET dry == DryRun(command_text, context, forced_location, client_metrics)
       IN \E psutil \in (IF "get_device_resource_state" \in Range(dry.calls)
                         THEN PsutilReadings ELSE {Unread}),
             pings \in (IF "estimate_network_quality" \in Range(dry.calls)
                        THEN PingReadings ELSE {Unread}),
             fs \in (IF "log_event" \in Range(dry.calls) THEN FsStates ELSE {"untouched"}),
             elapsed \in ElapsedMs :
            /\ call' = [made |-> TRUE, command_text |-> command_text, context |-> context,
                        forced_location |-> forced_location,
                        client_metrics |-> client_metrics,
                        psutil |-> psutil, pings |-> pings, fs |-> fs,
                        elapsed |-> elapsed]
            /\ result' = select_processing_location(command_text, context, forced_location,
                                                    client_metrics, psutil, pings, fs, elapsed)
            /\ pc' = "returned"
  /\ UNCHANGED conversation
  /\ UNCHANGED process_state

\* the caller takes the outcome and is ready for the next request
NextRequest ==
  /\ pc = "returned"
  /\ pc' = "idle"
  /\ call' = NoCall
  /\ result' = NoResult
  /\ UNCHANGED conversation
  /\ UNCHANGED process_state

Next == SelectProcessingLocation \/ NextRequest

Spec == Init /\ [][Next]_vars

TypeOK ==
  /\ pc \in {"idle", "returned"}
  /\ pc = "idle" <=> ~call.made
  /\ pc = "returned" => result.raised \in {"none", "OSError", "AttributeError", "TypeError"}

(***************************************************************************)
(* Properties of select_processing_location                                *)
(***************************************************************************)
VenueValues == {"local", "server", "hybrid", "automatic"}
ComplexityValues == {"simple", "moderate", "complex", "unknown"}
NetworkValues == {"excellent", "good", "fair", "poor", "offline", "unknown"}
DeviceValues == {"optimal", "adequate", "constrained", "critical", "unknown"}

\* the call returned (it did not raise)
Returned == pc = "returned" /\ result.raised = "none"

\* the forced_location argument is a venue string
ForcedUsable ==
  /\ pc = "returned"
  /\ call.forced_location.kind = "str"
  /\ call.forced_location.val \in VenueValues

\* the call went through automatic selection and returned
AutomaticReturn == Returned /\ ~ForcedUsable

\* the ordered chain of the routing policy: who a rule applies to, what it gives
PolicyChain ==
  <<[cx |-> ComplexityValues, net |-> {"offline"}, dev |-> DeviceValues,
     venue |-> "local", reason |-> "No network connectivity available"],
    [cx |-> ComplexityValues, net |-> {"excellent", "good"}, dev |-> {"critical"},
     venue |-> "server",
     reason |-> "Device resources critically low, good network available"],
    [cx |-> {"complex"}, net |-> {"excellent", "good", "fair"}, dev |-> DeviceValues,
     venue |-> "server", reason |-> "Complex command with adequate network"],
    [cx |-> {"simple"}, net |-> NetworkValues, dev |-> {"optimal", "adequate"},
     venue |-> "local", reason |-> "Simple command with adequate device resources"],
    [cx |-> ComplexityValues, net |-> {"excellent", "good"}, dev |-> DeviceValues,
     venue |-> "server", reason |-> "Good network conditions favor server processing"],
    [cx |-> ComplexityValues, net |-> NetworkValues, dev |-> DeviceValues,
     venue |-> "local", reason |-> "Default fallback to local for reliability"]>>

PolicyApplies(i, cx, net, dev) ==
  cx \in PolicyChain[i].cx /\ net \in PolicyChain[i].net /\ dev \in PolicyChain[i].dev

FirstApplying(cx, net, dev) ==
  CHOOSE i \in 1..Len(PolicyChain) :
    PolicyApplies(i, cx, net, dev) /\ \A j \in 1..(i - 1) : ~PolicyApplies(j, cx, net, dev)

\* C1: a call without a usable forced location returns the venue and the reason
\* of the first rule of the ordered chain that applies to its classified
\* signals, and the venue is Local or Server.
C1_FirstMatchingRule ==
  AutomaticReturn =>
    LET m == result.decision_metadata
        r == PolicyChain[FirstApplying(m["command_complexity"], m["network_condition"],
                                       m["device_state"])]
    IN /\ EnumValue[result.location] = r.venue
       /\ m["reason"] = r.reason
       /\ result.location \in {"ProcessingLocation.LOCAL", "ProcessingLocation.SERVER"}

\* a simple command on a capable device with a good network: the simple-command
\* rule applies before the network-quality rule
C1_Witness ==
  /\ AutomaticReturn
  /\ result.decision_metadata["command_complexity"] = "simple"
  /\ result.decision_metadata["network_condition"] = "good"
  /\ result.decision_metadata["device_state"] = "adequate"
  /\ result.location = "ProcessingLocation.LOCAL"

\* C2: whatever the forced_location argument, the returned venue is never
\* Automatic.
C2_NeverAutomatic ==
  Returned => result.location # "ProcessingLocation.AUTOMATIC"

\* C3: a call whose forced_location is a venue string returns that venue with
\* decision_time_ms 0 whatever the command, the telemetry and the time that
\* passed, having called no classifier, no telemetry provider and no log_event.
C3_ForcedReturnsAtOnce ==
  ForcedUsable =>
    /\ result.raised = "none"
    /\ EnumValue[result.location] = call.forced_location.val
    /\ result.decision_metadata["decision_time_ms"] = 0
    /\ result.calls = <<>>
    /\ result.log_events = <<>>
    /\ result.log_written = <<>>
    /\ call.psutil = Unread /\ call.pings = Unread /\ call.fs = "untouched"

C3_Witness ==
  /\ ForcedUsable
  /\ call.forced_location = PyStr("local")
  /\ Truthy(call.client_metrics)
  /\ call.elapsed > 0
  /\ result.location = "ProcessingLocation.LOCAL"

\* the forced_location argument is a non-empty string that names no venue
ForcedInvalid ==
  /\ pc = "returned"
  /\ call.forced_location.kind = "str"
  /\ call.forced_location.val # ""
  /\ call.forced_location.val \notin VenueValues

C5_OfflineIsLocal ==
  (AutomaticReturn /\ result.decision_metadata["network_condition"] = "offline") =>
    /\ result.location = "ProcessingLocation.LOCAL"
    /\ result.decision_metadata["reason"] = "No network connectivity available"

C5_Witness ==
  /\ AutomaticReturn
  /\ result.decision_metadata["network_condition"] = "offline"
  /\ result.decision_metadata["device_state"] = "critical"
  /\ result.decision_metadata["command_complexity"] = "complex"
  /\ result.location = "ProcessingLocation.LOCAL"

\* C6: in automatic selection a Critical device on an Excellent or Good network
\* gives Server with the device-critical reason, for every complexity.
C6_CriticalDeviceOffloads ==
  (/\ AutomaticReturn
   /\ result.decision_metadata["device_state"] = "critical"
   /\ result.decision_metadata["network_condition"] \in {"excellent", "good"}) =>
    /\ result.location = "ProcessingLocation.SERVER"
    /\ result.decision_metadata["reason"]
         = "Device resources critically low, good network available"

C6_Witness ==
  /\ AutomaticReturn
  /\ result.decision_metadata["device_state"] = "critical"
  /\ result.decision_metadata["network_condition"] = "good"
  /\ result.decision_metadata["command_complexity"] = "complex"
  /\ result.location = "ProcessingLocation.SERVER"

\* C7: in automatic selection a Simple command on an Optimal or Adequate device
\* gives Local on every network, Excellent and Good included.
C7_SimpleStaysLocal ==
  (/\ AutomaticReturn
   /\ result.decision_metadata["command_complexity"] = "simple"
   /\ result.decision_metadata["device_state"] \in {"optimal", "adequate"}) =>
    result.location = "ProcessingLocation.LOCAL"

C7_Witness ==
  /\ AutomaticReturn
  /\ result.decision_metadata["command_complexity"] = "simple"
  /\ result.decision_metadata["device_state"] = "optimal"
  /\ result.decision_metadata["network_condition"] = "excellent"
  /\ result.location = "ProcessingLocation.LOCAL"

\* C8: in automatic selection on a Fair network the decision is Server exactly
\* when the command is Complex, Local otherwise; Moderate on an Adequate device
\* goes Local with the default-fallback reason.
C8_FairNetwork ==
  (AutomaticReturn /\ result.decision_metadata["network_condition"] = "fair") =>
    LET m == result.decision_metadata
    IN /\ result.location = "ProcessingLocation.SERVER" <=> m["command_complexity"] = "complex"
       /\ m["command_complexity"] # "complex" => result.location = "ProcessingLocation.LOCAL"
       /\ (m["command_complexity"] = "moderate" /\ m["device_state"] = "adequate")
            => m["reason"] = "Default fallback to local for reliability"

C8_Witness ==
  /\ AutomaticReturn
  /\ result.decision_metadata["network_condition"] = "fair"
  /\ result.decision_metadata["command_complexity"] = "moderate"
  /\ result.decision_metadata["device_state"] = "adequate"
  /\ result.location = "ProcessingLocation.LOCAL"

\* C9 as stated: every return, forced or automatic, carries the decision venue,
\* a reason, the three classified signals and a decision time.
C9_EveryReturnCarriesSignals ==
  Returned =>
    /\ {"decision", "reason", "command_complexity", "network_condition", "device_state",
        "decision_time_ms"} \subseteq DOMAIN result.decision_metadata
    /\ result.decision_metadata["decision"] = EnumValue[result.location]

\* C9 as amended: every return carries the decision venue (the returned venue's
\* string value), a reason and a decision time; a return of the automatic rules
\* also carries the three classified signals and the measured time, a forced
\* return carries no signal and the time 0.
C9_DecisionRecord ==
  Returned =>
    LET m == result.decision_metadata
    IN /\ {"decision", "reason", "decision_time_ms"} \subseteq DOMAIN m
       /\ m["decision"] = EnumValue[result.location]
       /\ m["decision"] \in VenueValues
       /\ IF ForcedUsable
          THEN /\ DOMAIN m = {"decision", "reason", "decision_time_ms"}
               /\ m["reason"] = "Forced by user setting"
               /\ m["decision_time_ms"] = 0
          ELSE /\ DOMAIN m = {"decision", "reason", "command_complexity",
                              "network_condition", "device_state", "decision_time_ms"}
               /\ m["command_complexity"] \in ComplexityValues
               /\ m["network_condition"] \in NetworkValues
               /\ m["device_state"] \in DeviceValues
               /\ m["decision_time_ms"] = call.elapsed

C9_Witness ==
  /\ Returned
  /\ ForcedUsable
  /\ call.forced_location = PyStr("server")
  /\ "device_state" \notin DOMAIN result.decision_metadata

\* both server telemetry providers report failure: psutil raised, and the ping
\* probe raised or no ping succeeded
ProvidersFailed ==
  /\ pc = "returned"
  /\ call.psutil.state = "error"
  /\ \/ call.pings.state = "error"
     \/ call.pings.state = "ok" /\ \A i \in 1..Len(call.pings.times) :
                                     call.pings.times[i].kind = "none"

WordHi == <<"h", "i">>
WordHigh == <<"h", "i", "g", "h">>
WordStop == <<"S", "t", "o", "p">>
WordNo == <<"n", "o">>
WordNote == <<"n", "o", "t", "e">>
WordWhat == <<"w", "h", "a", "t">>
WordIs == <<"i", "s">>
WordWeather == <<"W", "E", "A", "T", "H", "E", "R">>
WordIt == <<"i", "t">>
WordExplain == <<"E", "x", "p", "l", "a", "i", "n">>

Words ==
  {WordHi, WordHigh, WordStop, WordNo, WordNote, WordWhat, WordIs, WordWeather,
   WordIt, WordExplain}

\* the longest command text, in words
MaxWords == 2

RECURSIVE JoinWords(_)
JoinWords(ws) ==
  IF Len(ws) = 1 THEN ws[1] ELSE ws[1] \o <<" ">> \o JoinWords(Tail(ws))

\* "what time is it"
CmdWhatTimeIsIt == <<"w", "h", "a", "t", " ", "t", "i", "m", "e", " ", "i", "s", " ", "i", "t">>

CommandTexts ==
  Commands \cup {CmdWhatTimeIsIt} \cup UNION {{JoinWords(ws) : ws \in [1..n -> Words]} : n \in 1..MaxWords}

\* resource_state records handed to classify_device_resource_state: every
\* metric at both sides of each threshold, and records with metrics missing
ResourceStateRecord(cpu, mem, avail, battery) ==
  PyDict(("cpu_percent" :> PyNum(cpu)) @@ ("memory_percent" :> PyNum(mem))
         @@ ("memory_available_mb" :> PyNum(avail)) @@ ("battery_percent" :> battery))

CpuPercents == {29, 30, 80, 81, 90}
MemoryPercents == {49, 50, 80, 81}
MemoryAvailableMbs == {100, 499, 500, 999, 1000, 4000, 4001}
BatteryPercents == {PyNone, PyNum(10), PyNum(14), PyNum(15), PyNum(29), PyNum(30), PyNum(70), PyNum(71)}

FullResourceStates ==
  {ResourceStateRecord(c, m, a, b) :
     c \in CpuPercents, m \in MemoryPercents, a \in MemoryAvailableMbs, b \in BatteryPercents}

PartialResourceStates ==
  {EmptyDict,
   PyDict("timestamp" :> PyStr("2025-01-01T00:00:00")),
   PyDict("cpu_percent" :> PyNum(90)),
   PyDict("memory_available_mb" :> PyNum(100)),
   PyDict("battery_percent" :> PyNum(80)),
   PyDict(("cpu_percent" :> PyNum(90)) @@ ("battery_percent" :> PyNone)),
   PyDict(("cpu_percent" :> PyNum(10)) @@ ("memory_percent" :> PyNum(10))
          @@ ("memory_available_mb" :> PyNum(8000))),
   PyDict("error" :> PyStr("psutil failed")),
   PyDict(("error" :> PyStr("psutil failed")) @@ ("cpu_percent" :> PyNum(10)))}

\* psutil readings at both sides of each threshold
PsutilGrid ==
  {[state |-> "error"]}
  \cup {PsutilReading(c, m, a, b) :
          c \in CpuPercents, m \in MemoryPercents, a \in MemoryAvailableMbs,
          b \in BatteryPercents}

\* the "network" record handed to classify_network_condition_from_client
ClientNetworkRecords ==
  {PyNone, EmptyDict, PyStr("4g"),
   PyDict("effectiveType" :> PyNone),
   PyDict("rtt" :> PyNum(50)),
   PyDict(("rtt" :> PyNum(50)) @@ ("downlink" :> PyNum(10))),
   PyDict(("effectiveType" :> PyStr("4g")) @@ ("rtt" :> PyNum(50)))}
  \cup {PyDict("effectiveType" :> PyStr(t)) :
          t \in {"offline", "slow-2g", "2g", "3g", "4g", "5g", "wifi", "ethernet",
                 "unknown", "4G", ""}}

\* the "memory" and "battery" records of the client telemetry (memoryGB in
\* quarters of a GB)
ClientMemoryRecords ==
  {Absent, PyNone, EmptyDict, PyDict("memoryGB" :> PyNone),
   PyDict("memoryGB" :> PyStr("unknown"))}
  \cup {PyDict("memoryGB" :> PyNum(q)) : q \in {1, 2, 3, 4, 15, 16, 32}}

ClientBatteryRecords ==
  {Absent, PyNone, EmptyDict, PyDict("level" :> PyNone),
   PyDict("level" :> PyStr("unknown"))}
  \cup {PyDict("level" :> PyNum(l)) : l \in {10, 14, 15, 29, 30, 70, 71}}

ClientDeviceMetrics ==
  {ClientMetricsDict(Absent, m, b) : m \in ClientMemoryRecords, b \in ClientBatteryRecords}

\* the value a classifier gave, or the exception it raised
ClassifierOutcome(value, members) ==
  IF value \in members
  THEN [raised |-> "none", value |-> value]
  ELSE [raised |-> value, value |-> "none"]

EstimateCommandComplexity ==
  /\ pc = "idle"
  /\ \E command_text \in CommandTexts :
       /\ call' = [made |-> TRUE, function |-> "estimate_command_complexity",
                   command_text |-> command_text]
       /\ result' = ClassifierOutcome(estimate_command_complexity(command_text),
                                      CommandComplexity)
  /\ pc' = "returned"
  /\ UNCHANGED conversation
  /\ UNCHANGED process_state

ClassifyDeviceResourceState ==
  /\ pc = "idle"
  /\ \E resource_state \in FullResourceStates \cup PartialResourceStates :
       /\ call' = [made |-> TRUE, function |-> "classify_device_resource_state",
                   resource_state |-> resource_state]
       /\ result' = ClassifierOutcome(classify_device_resource_state(resource_state),
                                      DeviceResourceState)
  /\ pc' = "returned"
  /\ UNCHANGED conversation
  /\ UNCHANGED process_state

\* lines 226 and 229: the provider's record, classified
MeasureDeviceResourceState ==
  /\ pc = "idle"
  /\ \E psutil \in PsutilGrid :
       /\ call' = [made |-> TRUE, function |-> "get_device_resource_state",
                   psutil |-> psutil]
       /\ result' = ClassifierOutcome(
                      classify_device_resource_state(get_device_resource_state(psutil)),
                      DeviceResourceState)
  /\ pc' = "returned"
  /\ UNCHANGED conversation
  /\ UNCHANGED process_state

ClassifyNetworkConditionFromClient ==
  /\ pc = "idle"
  /\ \E client_network_metrics \in ClientNetworkRecords :
       /\ call' = [made |-> TRUE, function |-> "classify_network_condition_from_client",
                   client_network_metrics |-> client_network_metrics]
       /\ result' = ClassifierOutcome(
                      classify_network_condition_from_client(client_network_metrics),
                      NetworkCondition)
  /\ pc' = "returned"
  /\ UNCHANGED conversation
  /\ UNCHANGED process_state

ClassifyDeviceResourceStateFromClient ==
  /\ pc = "idle"
  /\ \E client_metrics \in ClientDeviceMetrics :
       /\ call' = [made |-> TRUE,
                   function |-> "classify_device_resource_state_from_client",
                   client_metrics |-> client_metrics]
       /\ result' = ClassifierOutcome(
                      classify_device_resource_state_from_client(client_metrics),
                      DeviceResourceState)
  /\ pc' = "returned"
  /\ UNCHANGED conversation
  /\ UNCHANGED process_state

NextClassifiers ==
  \/ EstimateCommandComplexity
  \/ ClassifyDeviceResourceState
  \/ MeasureDeviceResourceState
  \/ ClassifyNetworkConditionFromClient
  \/ ClassifyDeviceResourceStateFromClient
  \/ NextRequest

SpecClassifiers == Init /\ [][NextClassifiers]_vars

\* the call made is a call of that function
Called(function) == pc = "returned" /\ call.function = function

(***************************************************************************)
(* Properties of the classifiers                                           *)
(***************************************************************************)
MetricKeys == {"cpu_percent", "memory_percent", "memory_available_mb", "battery_percent"}

\* the device state the four figures stand for; battery is PyNone or a number
DeviceStateOf(cpu, mem, avail, battery) ==
  LET has_battery == battery.kind = "num"
      critical == (has_battery /\ battery.val < 15) \/ avail < 500
      constrained == \/ cpu > 80 \/ mem > 80 \/ avail < 1000
                     \/ (has_battery /\ battery.val < 30)
      optimal == /\ cpu < 30 /\ mem < 50 /\ avail > 4000
                 /\ (~has_battery \/ battery.val > 70)
  IN CASE critical -> "DeviceResourceState.CRITICAL"
       [] ~critical /\ constrained -> "DeviceResourceState.CONSTRAINED"
       [] ~critical /\ ~constrained /\ optimal -> "DeviceResourceState.OPTIMAL"
       [] OTHER -> "DeviceResourceState.ADEQUATE"

\* C11 as stated: a record with no metric field and no error marker classifies
\* as Unknown.
C11_MissingMetricsAreUnknown ==
  (/\ Called("classify_device_resource_state")
   /\ DOMAIN call.resource_state.val \cap (MetricKeys \cup {"error"}) = {}) =>
    result.value = "DeviceResourceState.UNKNOWN"

\* C11 as amended: only an error marker gives Unknown.  A record without one
\* never classifies as Unknown: a missing CPU, memory or memory-available
\* figure takes its default (50 %, 50 %, 2000 MB) before the thresholds apply,
\* and a record with no metric field classifies as Adequate.
C11_MissingMetricsTakeDefaults ==
  Called("classify_device_resource_state") =>
    LET rs == call.resource_state
    IN IF "error" \in DOMAIN rs.val
       THEN result.value = "DeviceResourceState.UNKNOWN"
       ELSE /\ result.raised = "none"
            /\ result.value # "DeviceResourceState.UNKNOWN"
            /\ "battery_percent" \in DOMAIN rs.val
                 => result.value = DeviceStateOf(DictGet(rs, "cpu_percent", PyNum(50)).val,
                                                 DictGet(rs, "memory_percent", PyNum(50)).val,
                                                 DictGet(rs, "memory_available_mb", PyNum(2000)).val,
                                                 rs.val["battery_percent"])
            /\ DOMAIN rs.val \cap MetricKeys = {}
                 => result.value = "DeviceResourceState.ADEQUATE"

C11_Witness ==
  /\ Called("classify_device_resource_state")
  /\ call.resource_state = EmptyDict
  /\ result.value = "DeviceResourceState.ADEQUATE"

\* the patterns of a group, one of which matches the text
AnyPatternMatches(patterns, text) ==
  \E k \in 1..Len(patterns) : re_search(patterns[k], text)

UpperChar(c) ==
  IF \E i \in 1..26 : LowerLetters[i] = c
  THEN UpperLetters[CHOOSE i \in 1..26 : LowerLetters[i] = c]
  ELSE c

upper(text) == [i \in 1..Len(text) |-> UpperChar(text[i])]

\* C12: the complexity is Complex if a Complex pattern matches the lower-cased
\* text, else Moderate if a Moderate pattern does, else Simple if a Simple
\* pattern does, else Moderate; it is never Unknown, the empty text gives
\* Moderate, and the text in upper case gives the same result.
C12_ComplexityByGroupPrecedence ==
  Called("estimate_command_complexity") =>
    LET text == lower(call.command_text)
    IN /\ result.raised = "none"
       /\ result.value =
            (IF AnyPatternMatches(COMPLEX_PATTERNS, text) THEN "CommandComplexity.COMPLEX"
             ELSE IF AnyPatternMatches(MODERATE_PATTERNS, text) THEN "CommandComplexity.MODERATE"
             ELSE IF AnyPatternMatches(SIMPLE_PATTERNS, text) THEN "CommandComplexity.SIMPLE"
             ELSE "CommandComplexity.MODERATE")
       /\ result.value # "CommandComplexity.UNKNOWN"
       /\ call.command_text = <<>> => result.value = "CommandComplexity.MODERATE"
       /\ estimate_command_complexity(upper(call.command_text)) = result.value

\* a text that a Simple and a Complex pattern match, in mixed case
C12_Witness ==
  /\ Called("estimate_command_complexity")
  /\ call.command_text = JoinWords(<<WordStop, WordIt>>)
  /\ AnyPatternMatches(SIMPLE_PATTERNS, lower(call.command_text))
  /\ result.value = "CommandComplexity.COMPLEX"

\* C13: the command "what time is it" is classified Simple.
C13_WhatTimeIsItIsSimple ==
  (Called("estimate_command_complexity") /\ call.command_text = CmdWhatTimeIsIt) =>
    result.value = "CommandComplexity.SIMPLE"

\* the record holds the four metrics and no error marker
FullReading ==
  /\ Called("classify_device_resource_state")
  /\ call.resource_state \in FullResourceStates

\* C14: a reading with the four metrics (battery a number or None) classifies
\* as exactly the one of Critical, Constrained, Optimal, Adequate that the
\* thresholds give, Critical before Constrained before Optimal, every
\* comparison strict.
C14_DeviceStateByThresholds ==
  FullReading =>
    LET rs == call.resource_state.val
    IN /\ result.raised = "none"
       /\ result.value \in {"DeviceResourceState.CRITICAL", "DeviceResourceState.CONSTRAINED",
                            "DeviceResourceState.OPTIMAL", "DeviceResourceState.ADEQUATE"}
       /\ result.value = DeviceStateOf(rs["cpu_percent"].val, rs["memory_percent"].val,
                                       rs["memory_available_mb"].val, rs["battery_percent"])
       /\ (rs["battery_percent"] = PyNum(15) /\ rs["memory_available_mb"].val = 500)
            => result.value # "DeviceResourceState.CRITICAL"
       /\ (/\ rs["cpu_percent"].val = 80 /\ rs["memory_percent"].val = 80
           /\ rs["memory_available_mb"].val = 1000 /\ rs["battery_percent"] = PyNum(30))
            => result.value = "DeviceResourceState.ADEQUATE"

\* battery 10, 100 MB available, CPU 90: Critical, not Constrained
C14_Witness ==
  /\ FullReading
  /\ call.resource_state.val["battery_percent"] = PyNum(10)
  /\ call.resource_state.val["memory_available_mb"] = PyNum(100)
  /\ call.resource_state.val["cpu_percent"] = PyNum(90)
  /\ result.value = "DeviceResourceState.CRITICAL"

\* C15: a machine without a battery, measured by get_device_resource_state
\* with CPU < 30, memory < 50 and more than 4000 MB available, is Optimal.
C15_NoBatteryIsNoConstraint ==
  (/\ Called("get_device_resource_state")
   /\ call.psutil.state = "ok"
   /\ call.psutil.battery_percent.kind = "none"
   /\ call.psutil.cpu_percent < 30
   /\ call.psutil.memory_percent < 50
   /\ call.psutil.memory_available_mb > 4000) =>
    result.value = "DeviceResourceState.OPTIMAL"

\* the number under key of a sub-record of the client telemetry, PyNone when
\* the sub-record or the key is missing or the value is null
ClientFigure(client_metrics, record, key) ==
  LET sub == DictGet(client_metrics, record, EmptyDict)
  IN DictGet(sub, key, PyNone)

\* battery and memory are numbers or absent
WellFormedClientDevice ==
  /\ Called("classify_device_resource_state_from_client")
  /\ \A rk \in {<<"memory", "memoryGB">>, <<"battery", "level">>} :
       /\ DictGet(call.client_metrics, rk[1], EmptyDict).kind = "dict"
       /\ ClientFigure(call.client_metrics, rk[1], rk[2]).kind \in {"none", "num"}

\* C16: non-empty client telemetry whose battery level and memory are numbers
\* or absent classifies as Critical if battery < 15 or memory < 0.5 GB, else
\* Constrained if battery < 30 or memory < 1 GB, else Optimal if (no battery or
\* battery > 70) and (no memory or memory >= 4 GB), else Adequate; an absent
\* figure never gives Critical or Constrained.  (Memory in quarters of a GB.)
C16_ClientDeviceStateByThresholds ==
  WellFormedClientDevice =>
    LET battery == ClientFigure(call.client_metrics, "battery", "level")
        memory == ClientFigure(call.client_metrics, "memory", "memoryGB")
        has_battery == battery.kind = "num"
        has_memory == memory.kind = "num"
        critical == (has_battery /\ battery.val < 15) \/ (has_memory /\ memory.val < 2)
        constrained == (has_battery /\ battery.val < 30) \/ (has_memory /\ memory.val < 4)
        optimal == (~has_battery \/ battery.val > 70) /\ (~has_memory \/ memory.val >= 16)
    IN /\ result.raised = "none"
       /\ result.value =
            (IF critical THEN "DeviceResourceState.CRITICAL"
             ELSE IF constrained THEN "DeviceResourceState.CONSTRAINED"
             ELSE IF optimal THEN "DeviceResourceState.OPTIMAL"
             ELSE "DeviceResourceState.ADEQUATE")
       /\ (~has_battery /\ ~has_memory) => result.value = "DeviceResourceState.OPTIMAL"

\* exactly 4 GB of memory and no battery figure: Optimal
C16_Witness ==
  /\ WellFormedClientDevice
  /\ ClientFigure(call.client_metrics, "memory", "memoryGB") = PyNum(16)
  /\ ClientFigure(call.client_metrics, "battery", "level") = PyNone
  /\ result.value = "DeviceResourceState.OPTIMAL"

\* the network record holds a connection type, a string other than "unknown"
KnownConnectionType ==
  /\ Called("classify_network_condition_from_client")
  /\ call.client_network_metrics.kind = "dict"
  /\ DictGet(call.client_network_metrics, "effectiveType", PyNone).kind = "str"
  /\ DictGet(call.client_network_metrics, "effectiveType", PyNone).val # "unknown"

\* C17: offline gives Offline, 2g and slow-2g Poor, 3g Fair, 4g Good, and every
\* other connection type that is present and not "unknown" Good.
C17_ClientNetworkMapping ==
  KnownConnectionType =>
    LET t == call.client_network_metrics.val["effectiveType"].val
    IN /\ result.raised = "none"
       /\ result.value =
            (CASE t = "offline" -> "NetworkCondition.OFFLINE"
               [] t \in {"2g", "slow-2g"} -> "NetworkCondition.POOR"
               [] t = "3g" -> "NetworkCondition.FAIR"
               [] t = "4g" -> "NetworkCondition.GOOD"
               [] OTHER -> "NetworkCondition.GOOD")

C17_Witness ==
  /\ KnownConnectionType
  /\ call.client_network_metrics.val["effectiveType"] = PyStr("wifi")
  /\ result.value = "NetworkCondition.GOOD"

\* C18: a network record that is absent, or holds no effectiveType, or holds
\* the type "unknown", classifies as Unknown.
C18_MissingTypeIsUnknown ==
  (/\ Called("classify_network_condition_from_client")
   /\ \/ call.client_network_metrics.kind = "none"
      \/ /\ call.client_network_metrics.kind = "dict"
         /\ \/ "effectiveType" \notin DOMAIN call.client_network_metrics.val
            \/ call.client_network_metrics.val["effectiveType"] = PyStr("unknown")) =>
    result.value = "NetworkCondition.UNKNOWN"

\* C19: a call of select_processing_location with client telemetry in which a
\* sub-record or a field is absent, null or "unknown" raises no error out of
\* the classification of that telemetry.
C19_ClientTelemetryNeverRaises ==
  (pc = "returned" /\ ~ForcedUsable /\ Truthy(call.client_metrics)) =>
    result.raised \notin {"AttributeError", "TypeError"}

(***************************************************************************)
(* transition_processing_context.  A conversation context is an object on  *)
(* the heap; the caller passes None or a reference to one.                  *)
(***************************************************************************)
\* the .value of a venue member, any other value as it is (lines 345-346)
LocationValue(location) ==
  IF location.kind = "member" /\ location.val \in ProcessingLocation
  THEN PyStr(EnumValue[location.val])
  ELSE location

\* bool(conversation_context) for None or a reference to a dict
ContextTruthy(context, objects) ==
  IF context.kind = "ref" THEN Truthy(objects[context.val]) ELSE Truthy(context)

\* the id a newly created object gets
NewId(objects) == CHOOSE id \in 1..(Cardinality(DOMAIN objects) + 1) : id \notin DOMAIN objects

\* variant: the transition list is replaced by a list of the new event alone
transition_processing_context_Overwrites(from_location, to_location, context, objects, now, fs, elapsed) ==
  LET created == ~ContextTruthy(context, objects)
      id == IF created THEN NewId(objects) ELSE context.val
      objects1 == IF created
                  THEN (id :> PyDict("history" :> PyList(<<>>))) @@ objects
                  ELSE objects
      transition_event ==
        PyDict(("timestamp" :> PyNum(now))
               @@ ("from_location" :> LocationValue(from_location))
               @@ ("to_location" :> LocationValue(to_location)))
      objects2 == [objects1 EXCEPT ![id] =
                     PyDict(("transitions" :> PyList(<<transition_event>>)) @@ @.val)]
      logged == log_event("processing_location_transition", transition_event, fs)
  IN IF logged.raised
     THEN [raised |-> "OSError", heap |-> objects2, context |-> PyNone,
           transition_metadata |-> PyNone, log_written |-> logged.written]
     ELSE [raised |-> "none", heap |-> objects2, context |-> PyRef(id),
           transition_metadata |-> PyDict("transition_time_ms" :> PyNum(elapsed)),
           log_written |-> logged.written]

\* The outcome of one call: the heap after it, and either the exception that
\* left it or the returned pair (context, transition_metadata).
transition_processing_context(from_location, to_location, context, objects, now, fs, elapsed) ==
  LET created == ~ContextTruthy(context, objects)
      id == IF created THEN NewId(objects) ELSE context.val
      objects1 == IF created
                  THEN (id :> PyDict("history" :> PyList(<<>>))) @@ objects
                  ELSE objects
      transition_event ==
        PyDict(("timestamp" :> PyNum(now))
               @@ ("from_location" :> LocationValue(from_location))
               @@ ("to_location" :> LocationValue(to_location)))
      objects2 == IF "transitions" \notin DOMAIN objects1[id].val
                  THEN [objects1 EXCEPT ![id] =
                          PyDict(("transitions" :> PyList(<<>>)) @@ @.val)]
                  ELSE objects1
      objects3 == [objects2 EXCEPT ![id] =
                     PyDict([@.val EXCEPT !["transitions"] =
                                PyList(Append(@.val, transition_event))])]
      logged == log_event("processing_location_transition", transition_event, fs)
  IN IF logged.raised
     THEN [raised |-> "OSError", heap |-> objects3, context |-> PyNone,
           transition_metadata |-> PyNone, log_written |-> logged.written]
     ELSE [raised |-> "none", heap |-> objects3, context |-> PyRef(id),
           transition_metadata |-> PyDict("transition_time_ms" :> PyNum(elapsed)),
           log_written |-> logged.written]

\* the venues a caller passes: a member of the enum, and a raw string
Locations == {PyMember("ProcessingLocation.LOCAL"), PyStr("edge")}

\* readings of time.time() at line 344
Timestamps == {1, 2}

\* the contexts a caller starts a conversation with
InitialContexts ==
  {PyNone, EmptyDict,
   PyDict("history" :> PyList(<<PyStr("hello")>>)),
   PyDict(("history" :> PyList(<<>>)) @@ ("transitions" :> PyList(<<>>)))}

\* the longest transition list a conversation grows
MaxTransitions == 3

\* the transitions recorded in the object behind a reference
TransitionsOf(context, objects) ==
  IF context.kind = "ref" /\ "transitions" \in DOMAIN objects[context.val].val
  THEN objects[context.val].val["transitions"].val
  ELSE <<>>

\* only the objects the caller still refers to stay on the heap
Collect(objects, context) ==
  [id \in (IF context.kind = "ref" THEN {context.val} ELSE {}) |-> objects[id]]

\* the caller starts a conversation with a context of its own, or with none
StartConversation ==
  /\ pc = "idle"
  /\ \E initial \in InitialContexts :
       IF initial = PyNone
       THEN heap' = EmptyHeap /\ conversation_context' = PyNone
       ELSE heap' = (1 :> initial) /\ conversation_context' = PyRef(1)
  /\ UNCHANGED <<pc, call, result>>
  /\ UNCHANGED process_state

\* one call on the caller's context
TransitionProcessingContext ==
  /\ pc = "idle"
  /\ Len(TransitionsOf(conversation_context, heap)) < MaxTransitions
  /\ \E from_location \in Locations, to_location \in Locations,
        now \in Timestamps, fs \in FsStates, elapsed \in ElapsedMs :
       LET outcome == transition_processing_context(from_location, to_location,
                                                    conversation_context, heap,
                                                    now, fs, elapsed)
       IN /\ call' = [made |-> TRUE, function |-> "transition_processing_context",
                      from_location |-> from_location, to_location |-> to_location,
                      conversation_context |-> conversation_context,
                      now |-> now, fs |-> fs, elapsed |-> elapsed]
          /\ heap' = outcome.heap
          /\ result' = [raised |-> outcome.raised, context |-> outcome.context,
                        transition_metadata |-> outcome.transition_metadata,
                        log_written |-> outcome.log_written]
  /\ pc' = "returned"
  /\ UNCHANGED conversation_context
  /\ UNCHANGED process_state

\* the caller goes on with the context the call returned
UseReturnedContext ==
  /\ pc = "returned"
  /\ result.raised = "none"
  /\ conversation_context' = result.context
  /\ heap' = Collect(heap, result.context)
  /\ pc' = "idle"
  /\ call' = NoCall
  /\ result' = NoResult
  /\ UNCHANGED process_state

\* the caller goes on with the context it passed (the only one it has when
\* the call raised)
KeepOwnContext ==
  /\ pc = "returned"
  /\ heap' = Collect(heap, conversation_context)
  /\ pc' = "idle"
  /\ call' = NoCall
  /\ result' = NoResult
  /\ UNCHANGED conversation_context
  /\ UNCHANGED process_state

NextTransitions ==
  \/ StartConversation
  \/ TransitionProcessingContext
  \/ UseReturnedContext
  \/ KeepOwnContext

SpecTransitions == Init /\ [][NextTransitions]_vars

(***************************************************************************)
(* Properties of transition_processing_context                             *)
(***************************************************************************)
\* the entry a call with these arguments records
TransitionEntry(from_location, to_location, now) ==
  PyDict(("timestamp" :> PyNum(now))
         @@ ("from_location" :> (IF from_location.kind = "member"
                                 THEN PyStr(EnumValue[from_location.val])
                                 ELSE from_location))
         @@ ("to_location" :> (IF to_location.kind = "member"
                               THEN PyStr(EnumValue[to_location.val])
                               ELSE to_location)))

\* a step in which a call of transition_processing_context returns
TransitionReturns ==
  /\ pc = "idle"
  /\ pc' = "returned"
  /\ call'.function = "transition_processing_context"
  /\ result'.raised = "none"

\* C20: a call with an absent (or empty) context returns a context with an
\* empty history and exactly one transition; a call on a context that holds
\* entries, such as one a call returned, returns it with exactly one entry
\* added at the end of transitions, the entry of this call, every earlier
\* transition and the history as they were.  (A call returns unless the log
\* directory cannot be created, see C23.)
C20_AppendsInCallOrder ==
  [][TransitionReturns =>
       LET passed == call'.conversation_context
           entry == TransitionEntry(call'.from_location, call'.to_location, call'.now)
           returned == heap'[result'.context.val].val
       IN /\ result'.context.kind = "ref"
          /\ result'.context.val \in DOMAIN heap'
          /\ IF passed = PyNone \/ heap[passed.val] = EmptyDict
             THEN /\ returned["history"] = PyList(<<>>)
                  /\ returned["transitions"] = PyList(<<entry>>)
             ELSE /\ returned["transitions"] =
                       PyList(Append(TransitionsOf(passed, heap), entry))
                  /\ Len(returned["transitions"].val) = Len(TransitionsOf(passed, heap)) + 1
                  /\ \A key \in DOMAIN heap[passed.val].val \ {"transitions"} :
                       /\ key \in DOMAIN returned
                       /\ returned[key] = heap[passed.val].val[key]
  ]_vars

\* a third call on the context two calls returned: the list holds three
\* entries, the first with from equal to to, the third equal to the first
C20_Witness ==
  /\ pc = "returned"
  /\ call.function = "transition_processing_context"
  /\ result.raised = "none"
  /\ LET transitions == TransitionsOf(result.context, heap)
     IN /\ Len(transitions) = 3
        /\ transitions[1].val["from_location"] = transitions[1].val["to_location"]
        /\ transitions[3] = transitions[1]
        /\ transitions[2] # transitions[1]
        /\ heap[result.context.val].val["history"] = PyList(<<>>)

\* the value strings of the venue enumeration
CanonicalVenues == {PyStr(EnumValue[m]) : m \in ProcessingLocation}

\* C21: every from_location and to_location stored in a transitions list is
\* one of "local", "server", "hybrid", "automatic", whether the caller passed
\* an enum member or a raw string.
C21_StoredVenuesCanonical ==
  \A id \in DOMAIN heap :
    \A i \in 1..Len(TransitionsOf(PyRef(id), heap)) :
      LET entry == TransitionsOf(PyRef(id), heap)[i].val
      IN /\ entry["from_location"] \in CanonicalVenues
         /\ entry["to_location"] \in CanonicalVenues

\* C22: after a call that was passed a context object of the caller, that
\* object holds the new transition as its last one and is the object returned,
\* also when the object had no entries.
C22_AppendsToCallersObject ==
  (/\ pc = "returned"
   /\ call.function = "transition_processing_context"
   /\ call.conversation_context.kind = "ref"
   /\ result.raised = "none") =>
    /\ result.context = call.conversation_context
    /\ TransitionsOf(call.conversation_context, heap) # <<>>
    /\ LET transitions == TransitionsOf(call.conversation_context, heap)
       IN transitions[Len(transitions)] =
            TransitionEntry(call.from_location, call.to_location, call.now)

\* C23: no call of the core ends with the exception of a logging step; with
\* the log directory not creatable or the log file not writable the call
\* still returns.
C23_LoggingNeverFailsTheCore ==
  (pc = "returned" /\ call.fs \in {"no_dir", "no_write"}) => result.raised = "none"

(***************************************************************************)
(* Further properties of select_processing_location                        *)
(***************************************************************************)
\* C27: in automatic selection a Poor, Offline or Unknown network gives Local
\* for every complexity and device state, Critical included; a Critical
\* device is sent to the server only on an Excellent or Good network, or with
\* a Complex command on a Fair one.
C27_WeakNetworkStaysLocal ==
  AutomaticReturn =>
    LET m == result.decision_metadata
    IN /\ m["network_condition"] \in {"poor", "offline", "unknown"}
            => result.location = "ProcessingLocation.LOCAL"
       /\ (m["device_state"] = "critical" /\ result.location = "ProcessingLocation.SERVER")
            => \/ m["network_condition"] \in {"excellent", "good"}
               \/ m["command_complexity"] = "complex" /\ m["network_condition"] = "fair"

\* a Critical device with a Complex command on a Poor network stays local
C27_Witness ==
  /\ AutomaticReturn
  /\ result.decision_metadata["device_state"] = "critical"
  /\ result.decision_metadata["network_condition"] = "poor"
  /\ result.decision_metadata["command_complexity"] = "complex"
  /\ result.location = "ProcessingLocation.LOCAL"

\* the call measured its telemetry on the server and returned
ServerMeasuredReturn ==
  /\ AutomaticReturn
  /\ ~Truthy(call.client_metrics)

\* no ping of the probe succeeded
NoPingSucceeded ==
  /\ call.pings.state = "ok"
  /\ \A i \in 1..Len(call.pings.times) : call.pings.times[i].kind = "none"

\* C28: on the server-measured path the network condition is never Offline;
\* when no ping succeeds it is Unknown and the decision is Local with the
\* default-fallback or the simple-command reason, never the no-connectivity
\* reason.
C28_ServerPathNeverOffline ==
  ServerMeasuredReturn =>
    LET m == result.decision_metadata
    IN /\ m["network_condition"] \in {"excellent", "good", "fair", "poor", "unknown"}
       /\ m["reason"] # "No network connectivity available"
       /\ NoPingSucceeded =>
            /\ m["network_condition"] = "unknown"
            /\ result.location = "ProcessingLocation.LOCAL"
            /\ m["reason"] \in {"Default fallback to local for reliability",
                                "Simple command with adequate device resources"}

C28_Witness ==
  /\ ServerMeasuredReturn
  /\ NoPingSucceeded
  /\ result.decision_metadata["device_state"] = "critical"
  /\ result.decision_metadata["reason"] = "Default fallback to local for reliability"

\* how often a function occurs among the calls made
TimesCalled(function) ==
  Cardinality({i \in DOMAIN result.calls : result.calls[i] = function})

ServerProviders == {"get_device_resource_state", "estimate_network_quality"}
ServerClassifiers == {"classify_network_condition", "classify_device_resource_state"}
ClientClassifiers ==
  {"classify_network_condition_from_client", "classify_device_resource_state_from_client"}

\* C29: a call in automatic selection with a non-empty client telemetry
\* mapping classifies with the client classifiers only and calls no server
\* provider; with client telemetry None or an empty mapping it calls each
\* server provider exactly once and no client classifier.  The complexity is
\* computed from the command text in both cases.
C29_TelemetrySourceSelection ==
  (pc = "returned" /\ ~ForcedUsable) =>
    /\ result.calls # <<>>
    /\ IF call.client_metrics.kind = "dict" /\ DOMAIN call.client_metrics.val # {}
       THEN /\ \A f \in ServerProviders \cup ServerClassifiers : TimesCalled(f) = 0
            /\ TimesCalled("classify_network_condition_from_client") = 1
            /\ call.psutil = Unread /\ call.pings = Unread
            /\ Returned =>
                 /\ TimesCalled("classify_device_resource_state_from_client") = 1
                 /\ result.log_events[1].data.metrics_source = "client"
                 /\ result.decision_metadata["network_condition"] =
                      EnumValue[classify_network_condition_from_client(
                                  DictGet(call.client_metrics, "network", PyNone))]
                 /\ result.decision_metadata["device_state"] =
                      EnumValue[classify_device_resource_state_from_client(call.client_metrics)]
       ELSE /\ \A f \in ServerProviders \cup ServerClassifiers : TimesCalled(f) = 1
            /\ \A f \in ClientClassifiers : TimesCalled(f) = 0
            /\ call.psutil # Unread /\ call.pings # Unread
            /\ result.log_events[1].data.metrics_source = "server"
            /\ Returned =>
                 /\ result.decision_metadata["network_condition"] =
                      EnumValue[classify_network_condition(estimate_network_quality(call.pings))]
                 /\ result.decision_metadata["device_state"] =
                      EnumValue[classify_device_resource_state(
                                  get_device_resource_state(call.psutil))]
    /\ Returned =>
         /\ TimesCalled("estimate_command_complexity") = 1
         /\ result.decision_metadata["command_complexity"] =
              EnumValue[estimate_command_complexity(call.command_text)]

\* an empty mapping is given: the server is measured
C29_Witness ==
  /\ Returned
  /\ call.client_metrics = EmptyDict
  /\ call.forced_location = PyNone
  /\ TimesCalled("get_device_resource_state") = 1
  /\ TimesCalled("estimate_network_quality") = 1
  /\ result.decision_metadata["network_condition"] = "good"

(***************************************************************************)
(* The /api/process-request handler, server.py:58-115.  The request body   *)
(* is a record of the values under "query" and "client_metrics" (Absent:   *)
(* no such key).  An exception that leaves the handler is answered by the  *)
(* framework with status 500.                                              *)
(***************************************************************************)
\* the outcome of a request: status, JSON body, whether routing was invoked
\* and what it raised, the events handed to log_event
Response(status, body, routed, routing_raised, events) ==
  [raised |-> "none", status |-> status, body |-> body, routed |-> routed,
   routing_raised |-> routing_raised, log_events |-> events]

HandlerRaises(exception, routed, routing_raised, events) ==
  [raised |-> exception, status |-> 500, body |-> <<>>, routed |-> routed,
   routing_raised |-> routing_raised, log_events |-> events]

\* lines 90-94: the metadata reported when routing raised
RoutingErrorMetadata(exception) ==
  ("decision" :> EnumValue["ProcessingLocation.SERVER"])
  @@ ("reason" :> <<"Error during routing decision: ", exception>>)
  @@ ("decision_time_ms" :> 0)

\* lines 82-115: the handler from the outcome of the routing call on
RespondRouted(query, routing, fs) ==
  LET failed == routing.raised # "none"
      ideal_location == IF failed THEN "ProcessingLocation.SERVER" ELSE routing.location
      decision_meta == IF failed THEN RoutingErrorMetadata(routing.raised)
                       ELSE routing.decision_metadata
      routing_event == IF failed THEN "pwa_routing_error" ELSE "pwa_routing_decision"
      events == <<"pwa_request_received", routing_event, "pwa_response_sent">>
  IN IF log_event(routing_event, decision_meta, fs).raised
     THEN HandlerRaises("OSError", TRUE, routing.raised, SubSeq(events, 1, 2))
     ELSE IF log_event("pwa_response_sent", EnumValue[ideal_location], fs).raised
     THEN HandlerRaises("OSError", TRUE, routing.raised, events)
     ELSE Response(200,
                   [result |-> <<query, EnumValue[ideal_location], decision_meta["reason"]>>,
                    ideal_processing_location |-> EnumValue[ideal_location],
                    actual_processing_location |-> EnumValue["ProcessingLocation.SERVER"],
                    routing_metadata |-> decision_meta],
                   TRUE, routing.raised, events)

process_request(data, psutil, pings, fs, elapsed) ==
  LET query == IF data.query = Absent THEN <<>> ELSE data.query.val
      client_metrics == IF data.client_metrics = Absent THEN PyNone ELSE data.client_metrics
  IN IF query = <<>>
     THEN IF log_event("pwa_request_error", "No query provided", fs).raised
          THEN HandlerRaises("OSError", FALSE, "none", <<"pwa_request_error">>)
          ELSE Response(400, [error |-> "No query provided"], FALSE, "none",
                        <<"pwa_request_error">>)
     ELSE IF log_event("pwa_request_received", client_metrics.kind # "none", fs).raised
     THEN HandlerRaises("OSError", FALSE, "none", <<"pwa_request_received">>)
     ELSE \* lines 78-81: the one routing call of the request
          CHOOSE response \in
            {RespondRouted(query, routing, fs) :
               routing \in {select_processing_location(query, PyNone, PyNone,
                                                       client_metrics, psutil, pings,
                                                       fs, elapsed)}} : TRUE

\* a string of the request body, as the text the classifier reads
PyText(text) == [kind |-> "text", val |-> text]

\* request bodies
Queries == {PyText(c) : c \in Commands} \cup {Absent}

RequestClientMetrics == ClientMetrics \cup {Absent}

\* one request to /api/process-request
ProcessRequest ==
  /\ pc = "idle"
  /\ \E query \in Queries, client_metrics \in RequestClientMetrics, fs \in FsStates,
        elapsed \in ElapsedMs :
       LET data == [query |-> query, client_metrics |-> client_metrics]
           dry == process_request(data, [state |-> "error"], [state |-> "error"], fs, elapsed)
           measures == dry.routed /\ (client_metrics = Absent \/ ~Truthy(client_metrics))
       IN \E psutil \in (IF measures THEN PsutilReadings ELSE {Unread}),
             pings \in (IF measures THEN PingReadings ELSE {Unread}) :
            /\ call' = [made |-> TRUE, function |-> "process_request", data |-> data,
                        psutil |-> psutil, pings |-> pings, fs |-> fs, elapsed |-> elapsed]
            /\ result' = process_request(data, psutil, pings, fs, elapsed)
  /\ pc' = "returned"
  /\ UNCHANGED conversation
  /\ UNCHANGED process_state

NextServer == ProcessRequest \/ NextRequest

SpecServer == Init /\ [][NextServer]_vars

\* a request was handled
Handled == pc = "returned" /\ call.function = "process_request"

\* the request carries a non-empty query
NonEmptyQuery == call.data.query # Absent /\ call.data.query.val # <<>>

\* C26: every request with a non-empty query is answered with status 200 and
\* the actual location Server, whatever routing decided; when routing raised,
\* the answer reports the ideal location Server, decision time 0 and the
\* error in the reason.  A request with an empty query is answered with
\* status 400 and routing is not invoked.
C26_HandlerAlwaysAnswers ==
  Handled =>
    IF NonEmptyQuery
    THEN /\ result.raised = "none"
         /\ result.status = 200
         /\ result.routed
         /\ result.body.actual_processing_location = "server"
         /\ result.routing_raised # "none" =>
              /\ result.body.ideal_processing_location = "server"
              /\ result.body.routing_metadata["decision_time_ms"] = 0
              /\ result.body.routing_metadata["reason"] =
                   <<"Error during routing decision: ", result.routing_raised>>
    ELSE /\ result.raised = "none"
         /\ result.status = 400
         /\ ~result.routed

(***************************************************************************)
(* The model cache, model_loader.py:21-118.  A loaded model is the record  *)
(* of the model id it was loaded from.  What the hub and the loader do for *)
(* a model id during a call is an input: hub is "cached" (found in the     *)
(* local cache), "downloaded" or "failed"; from_pretrained is "ok" or the  *)
(* exception that cmx.from_pretrained or set_dtype raised.                 *)
(***************************************************************************)
AVAILABLE_MODELS ==
  ("rene" :> "cartesia-ai/Rene-v0.1-1.3b-4bit-mlx")
  @@ ("llamba-1b" :> "cartesia-ai/Llamba-1B")
  @@ ("llamba-3b" :> "cartesia-ai/Llamba-3B-4bit-mlx")
  @@ ("llamba-8b" :> "cartesia-ai/Llamba-8B")

Model(model_id) == [model_id |-> model_id]

\* the outcome of a call on the cache: exception or returned value, the cache
\* after the call, the hub and loader calls made, the events handed to log_event
CacheOutcome(raised, value, models, calls, events) ==
  [raised |-> raised, value |-> value, loaded_models |-> models, calls |-> calls,
   log_events |-> events]

\* download_model with its measure_execution_time wrapper, lines 35-51
download_model(model_id, hub, fs) ==
  IF fs = "no_dir"
  THEN [raised |-> "OSError", calls |-> <<"check_model_in_cache">>,
        events |-> <<IF hub = "cached" THEN "model_cache_hit" ELSE "model_download_start">>]
  ELSE CASE hub = "cached" ->
              [raised |-> "none", calls |-> <<"check_model_in_cache">>,
               events |-> <<"model_cache_hit", "download_model_execution_time">>]
         [] hub = "downloaded" ->
              [raised |-> "none", calls |-> <<"check_model_in_cache", "snapshot_download">>,
               events |-> <<"model_download_start", "model_download_complete",
                            "download_model_execution_time">>]
         [] hub = "failed" ->
              [raised |-> "DownloadError",
               calls |-> <<"check_model_in_cache", "snapshot_download">>,
               events |-> <<"model_download_start", "model_download_error">>]

\* One activation of load_model, lines 57-106, up to the fallback call of
\* line 95: fallback tells that the activation ends by calling load_model("rene")
LoadOnce(model_name, models, env, fs) ==
  IF model_name \in DOMAIN models
  THEN IF fs = "no_dir"
       THEN [fallback |-> FALSE,
             outcome |-> CacheOutcome("OSError", "none", models, <<>>,
                                      <<"model_already_loaded">>)]
       ELSE [fallback |-> FALSE,
             outcome |-> CacheOutcome("none", models[model_name], models, <<>>,
                                      <<"model_already_loaded",
                                        "load_model_execution_time">>)]
  ELSE IF model_name \notin DOMAIN AVAILABLE_MODELS
  THEN [fallback |-> FALSE,
        outcome |-> CacheOutcome("ValueError", "none", models, <<>>, <<>>)]
  ELSE LET model_id == AVAILABLE_MODELS[model_name]
           download == download_model(model_id, env[model_name].hub, fs)
           from_pretrained == env[model_name].from_pretrained
           calls == download.calls \o <<"from_pretrained">>
           started == download.events \o <<"model_load_start">>
       IN IF download.raised # "none"
          THEN [fallback |-> FALSE,
                outcome |-> CacheOutcome(download.raised, "none", models, download.calls,
                                         download.events)]
          ELSE IF from_pretrained = "ok"
          THEN [fallback |-> FALSE,
                outcome |-> CacheOutcome("none", Model(model_id),
                                         (model_name :> Model(model_id)) @@ models, calls,
                                         started \o <<"model_load_success",
                                                      "load_model_execution_time">>)]
          ELSE IF from_pretrained = "IndexError" /\ model_name # "rene"
          THEN [fallback |-> TRUE,
                outcome |-> CacheOutcome("IndexError", "none", models, calls,
                                         started \o <<"model_load_error",
                                                      "model_load_fallback">>)]
          ELSE [fallback |-> FALSE,
                outcome |-> CacheOutcome(from_pretrained, "none", models, calls,
                                         started \o <<"model_load_error">>)]

\* variant: after a fallback the "rene" model is cached under the requested name too
load_model_FallbackUnderRequestedName(model_name, models, env, fs) ==
  LET first == LoadOnce(model_name, models, env, fs)
      rene == LoadOnce("rene", models, env, fs).outcome
  IN IF first.fallback
     THEN CacheOutcome(rene.raised, rene.value,
                       IF rene.raised = "none"
                       THEN (model_name :> rene.value) @@ rene.loaded_models
                       ELSE rene.loaded_models,
                       first.outcome.calls \o rene.calls,
                       first.outcome.log_events \o rene.log_events
                         \o (IF rene.raised = "none"
                             THEN <<"load_model_execution_time">> ELSE <<>>))
     ELSE first.outcome

\* load_model with its measure_execution_time wrapper, lines 53-106; env gives
\* for each model name what the hub and the loader do for it.  The fallback
\* call load_model("rene") of line 95 never falls back itself.
load_model(model_name, models, env, fs) ==
  LET first == LoadOnce(model_name, models, env, fs)
      rene == LoadOnce("rene", models, env, fs).outcome
  IN IF first.fallback
     THEN CacheOutcome(rene.raised, rene.value, rene.loaded_models,
                       first.outcome.calls \o rene.calls,
                       first.outcome.log_events \o rene.log_events
                         \o (IF rene.raised = "none"
                             THEN <<"load_model_execution_time">> ELSE <<>>))
     ELSE first.outcome

\* unload_model, lines 108-114
unload_model(model_name, models, fs) ==
  IF model_name \in DOMAIN models
  THEN IF fs = "no_dir"
       THEN CacheOutcome("OSError", "none", models, <<>>, <<"model_unload">>)
       ELSE CacheOutcome("none", TRUE,
                         [name \in DOMAIN models \ {model_name} |-> models[name]],
                         <<>>, <<"model_unload">>)
  ELSE CacheOutcome("none", FALSE, models, <<>>, <<>>)

\* list_loaded_models, lines 116-118
list_loaded_models(models) == DOMAIN models

\* the names callers ask for: the available ones and two unknown ones
ModelNames == DOMAIN AVAILABLE_MODELS \cup {"gpt-2", ""}

HubOutcomes == {"cached", "downloaded", "failed"}
LoaderOutcomes == {"ok", "IndexError", "RuntimeError"}

\* the hub and the loader were not asked about a model
Unasked == [hub |-> "unasked", from_pretrained |-> "unasked"]

\* what the hub and the loader do for the requested model and for "rene";
\* only what the call gets to ask is drawn
ModelEnvs(model_name, models) ==
  LET asks == model_name \in DOMAIN AVAILABLE_MODELS \ DOMAIN models
      own == IF asks
             THEN {[hub |-> h, from_pretrained |-> (IF h = "failed" THEN "unasked" ELSE l)] :
                     h \in HubOutcomes, l \in LoaderOutcomes}
             ELSE {Unasked}
      rene(e) == IF /\ asks /\ model_name # "rene" /\ e.from_pretrained = "IndexError"
                    /\ "rene" \notin DOMAIN models
                 THEN {[hub |-> h, from_pretrained |-> (IF h = "failed" THEN "unasked" ELSE l)] :
                         h \in HubOutcomes, l \in LoaderOutcomes}
                 ELSE {Unasked}
  IN UNION {{(model_name :> e) @@ ("rene" :> r) : r \in rene(e)} : e \in own}

\* the call record and the outcome of a call on the cache
CacheCall(function, model_name, env, fs, outcome) ==
  /\ call' = [made |-> TRUE, function |-> function, model_name |-> model_name,
              env |-> env, fs |-> fs, loaded_before |-> loaded_models]
  /\ result' = [raised |-> outcome.raised, value |-> outcome.value, calls |-> outcome.calls,
                log_events |-> outcome.log_events]
  /\ loaded_models' = outcome.loaded_models
  /\ pc' = "returned"
  /\ UNCHANGED <<conversation, threads, log_file>>

LoadModel ==
  /\ pc = "idle"
  /\ \E model_name \in ModelNames, fs \in FsStates :
       \E env \in ModelEnvs(model_name, loaded_models) :
         CacheCall("load_model", model_name, env, fs,
                   load_model(model_name, loaded_models, env, fs))

UnloadModel ==
  /\ pc = "idle"
  /\ \E model_name \in ModelNames, fs \in FsStates :
       CacheCall("unload_model", model_name, <<>>,
                 IF model_name \in DOMAIN loaded_models THEN fs ELSE "untouched",
                 unload_model(model_name, loaded_models, fs))

ListLoadedModels ==
  /\ pc = "idle"
  /\ CacheCall("list_loaded_models", "", <<>>, "untouched",
               CacheOutcome("none", list_loaded_models(loaded_models), loaded_models,
                            <<>>, <<>>))

NextModels == LoadModel \/ UnloadModel \/ ListLoadedModels \/ NextRequest

SpecModels == Init /\ [][NextModels]_vars

CacheCallReturned(function) == pc = "returned" /\ call.made /\ call.function = function

\* every key of the cache is an available name holding the model of its own id
OwnLoadsOnly ==
  \A name \in DOMAIN loaded_models :
    /\ name \in DOMAIN AVAILABLE_MODELS
    /\ loaded_models[name] = Model(AVAILABLE_MODELS[name])

\* the loader was asked for a model other than "rene" and failed with an IndexError
LoadFailsWithIndexError ==
  /\ CacheCallReturned("load_model")
  /\ call.model_name \in DOMAIN AVAILABLE_MODELS \ DOMAIN call.loaded_before
  /\ call.model_name # "rene"
  /\ call.fs # "no_dir"
  /\ call.env[call.model_name].hub # "failed"
  /\ call.env[call.model_name].from_pretrained = "IndexError"

\* the load of "rene" that the fallback makes succeeds
ReneLoads ==
  \/ "rene" \in DOMAIN call.loaded_before
  \/ call.env["rene"].hub # "failed" /\ call.env["rene"].from_pretrained = "ok"

Without(models, model_name) == [name \in DOMAIN models \ {model_name} |-> models[name]]

\* C30 as stated: every key of loaded_models is an available name whose own
\* load succeeded; a load of an unknown name raises and leaves the cache
\* unchanged; a load of a cached name returns the cached model without download
\* or load; a load other than "rene" failing with an IndexError returns the
\* "rene" model, stored under "rene" only; unload_model returns True exactly
\* when the name was cached and removes it.
C30_CacheContractAsStated ==
  /\ OwnLoadsOnly
  /\ CacheCallReturned("load_model") =>
       /\ call.model_name \notin DOMAIN AVAILABLE_MODELS =>
            result.raised # "none" /\ loaded_models = call.loaded_before
       /\ call.model_name \in DOMAIN call.loaded_before =>
            /\ result.raised = "none"
            /\ result.value = call.loaded_before[call.model_name]
            /\ result.calls = <<>>
       /\ LoadFailsWithIndexError =>
            /\ result.raised = "none"
            /\ result.value = Model(AVAILABLE_MODELS["rene"])
            /\ "rene" \in DOMAIN loaded_models
            /\ call.model_name \notin DOMAIN loaded_models
  /\ CacheCallReturned("unload_model") =>
       /\ result.raised = "none"
       /\ result.value = (call.model_name \in DOMAIN call.loaded_before)
       /\ loaded_models = Without(call.loaded_before, call.model_name)

\* C30, amended: every key of loaded_models is an available name holding the
\* model of its own id; a load of an unknown name raises ValueError, asks
\* neither hub nor loader and leaves the cache unchanged; a load of a cached
\* name asks neither hub nor loader, leaves the cache unchanged and returns
\* nothing but the cached model; a load other than "rene" failing with an
\* IndexError ends as load_model("rene") ends: it returns the "rene" model,
\* cached under "rene" only, when that load succeeds, and raises with the
\* cache unchanged when it fails, and never stores anything under the
\* requested name; unload_model returns False and changes nothing for a name
\* not cached, returns nothing but True for a cached name, and the name is
\* gone from the cache exactly when True is returned.
C30_CacheContract ==
  /\ OwnLoadsOnly
  /\ CacheCallReturned("load_model") =>
       /\ call.model_name \notin DOMAIN AVAILABLE_MODELS =>
            /\ result.raised = "ValueError"
            /\ result.calls = <<>>
            /\ loaded_models = call.loaded_before
       /\ call.model_name \in DOMAIN call.loaded_before =>
            /\ result.calls = <<>>
            /\ loaded_models = call.loaded_before
            /\ result.raised = "none" => result.value = call.loaded_before[call.model_name]
       /\ LoadFailsWithIndexError =>
            /\ call.model_name \notin DOMAIN loaded_models
            /\ IF ReneLoads
               THEN /\ result.raised = "none"
                    /\ result.value = Model(AVAILABLE_MODELS["rene"])
                    /\ loaded_models =
                         ("rene" :> Model(AVAILABLE_MODELS["rene"])) @@ call.loaded_before
               ELSE /\ result.raised # "none"
                    /\ loaded_models = call.loaded_before
  /\ CacheCallReturned("unload_model") =>
       IF call.model_name \notin DOMAIN call.loaded_before
       THEN result.raised = "none" /\ result.value = FALSE
            /\ loaded_models = call.loaded_before
       ELSE IF result.raised = "none"
       THEN result.value = TRUE
            /\ loaded_models = Without(call.loaded_before, call.model_name)
       ELSE loaded_models = call.loaded_before

\* a fallback that returned the "rene" model while another model was cached
C30_Witness ==
  /\ LoadFailsWithIndexError
  /\ result.raised = "none"
  /\ "rene" \notin DOMAIN call.loaded_before
  /\ call.loaded_before # NoModels
  /\ DOMAIN loaded_models = DOMAIN call.loaded_before \cup {"rene"}

(***************************************************************************)
(* Concurrent calls of select_processing_location, hybrid_router.py:       *)
(* 183-322.  Each thread runs one call statement by statement; the steps   *)
(* of the threads interleave freely.  A thread's record holds the          *)
(* arguments and the locals of its activation; the log file is the one     *)
(* object the activations share.                                           *)
(***************************************************************************)
ThreadIds == {"t1", "t2"}

\* the arguments the concurrent callers pass
ConcurrentArguments ==
  [command_text : {CmdHello, CmdExplain},
   context : {PyNone},
   forced_location : {PyNone, PyStr("server"), PyStr("bogus")},
   client_metrics : {PyNone,
                     ClientMetricsDict(PyDict("effectiveType" :> PyStr("4g")),
                                       PyDict("memoryGB" :> PyNum(1)), Absent)}]

\* what the probes read while the threads run
ConcurrentPsutilReadings == {PsutilReading(20, 40, 5000, PyNum(80)), PsutilReading(90, 90, 100, PyNum(10))}
ConcurrentPingReadings == {PingReading(PyNum(20), PyNum(30), PyNum(40)), PingReading(PyNone, PyNone, PyNone)}

\* line 199: the activation of a call, before its first statement
Activation(arguments) ==
  [at |-> "forced_location", command_text |-> arguments.command_text,
   context |-> arguments.context, forced_location |-> arguments.forced_location,
   client_metrics |-> arguments.client_metrics,
   psutil |-> Unread, pings |-> Unread, fs |-> "untouched", elapsed |-> 0,
   telemetry |-> [raised |-> "unset"], command_complexity |-> "unset",
   outcome |-> NoResult]

\* lines 202-213: the forced location returns at once when it is a venue
ForcedStep(thread) ==
  LET forced_loc == ForcedLocation(thread.forced_location)
  IN IF forced_loc # "ValueError"
     THEN [thread EXCEPT !.at = "done",
                         !.outcome = Returns(forced_loc, ForcedMetadata(forced_loc),
                                             <<>>, <<>>, <<>>)]
     ELSE [thread EXCEPT !.at = "metrics"]

\* lines 215-229: the signals from the client's telemetry or from the probes
MetricsStep(thread, psutil, pings) ==
  LET telemetry == ClassifyTelemetry(thread.client_metrics, psutil, pings)
      read == [thread EXCEPT !.psutil = psutil, !.pings = pings, !.telemetry = telemetry]
  IN IF telemetry.raised # "none"
     THEN [read EXCEPT !.at = "done",
                       !.outcome = Raises(telemetry.raised, telemetry.calls, <<>>, <<>>)]
     ELSE IF telemetry.device_state \notin DeviceResourceState
     THEN [read EXCEPT !.at = "done",
                       !.outcome = Raises(telemetry.device_state, telemetry.calls,
                                          <<>>, <<>>)]
     ELSE [read EXCEPT !.at = "complexity"]

\* line 232
ComplexityStep(thread) ==
  [thread EXCEPT !.at = "log_event",
                 !.command_complexity = CommandComplexityOf[thread.command_text]]

\* the data of the event of lines 235-241
ContextEvent(thread) ==
  [metrics_source |-> thread.telemetry.metrics_source,
   command_complexity |-> EnumValue[thread.command_complexity],
   network_condition |-> EnumValue[thread.telemetry.network_condition],
   device_state |-> EnumValue[thread.telemetry.device_state],
   has_context |-> thread.context.kind # "none"]

ThreadCalls(thread) == thread.telemetry.calls \o <<"estimate_command_complexity", "log_event">>

\* lines 235-241: the thread after log_event
LogStep(thread, fs) ==
  LET data == ContextEvent(thread)
      logged == log_event("processing_location_context", data, fs)
  IN IF logged.raised
     THEN [thread EXCEPT !.at = "done", !.fs = fs,
                         !.outcome = Raises("OSError", ThreadCalls(thread),
                                            <<[event_type |-> "processing_location_context",
                                               data |-> data]>>,
                                            logged.written)]
     ELSE [thread EXCEPT !.at = "rules", !.fs = fs]

\* variant: a decision that took measurable time is kept on the device
RulesStep_SlowDecisionStaysLocal(thread, elapsed) ==
  LET telemetry == thread.telemetry
      rule == IF elapsed > 0
              THEN <<"ProcessingLocation.LOCAL", "Decision took too long">>
              ELSE RoutingRules(thread.command_complexity, telemetry.network_condition,
                                telemetry.device_state)
      data == ContextEvent(thread)
  IN [thread EXCEPT !.at = "done", !.elapsed = elapsed,
                    !.outcome =
                      Returns(rule[1],
                              DecisionMetadata(rule[1], rule[2], thread.command_complexity,
                                               telemetry.network_condition,
                                               telemetry.device_state, elapsed),
                              ThreadCalls(thread),
                              <<[event_type |-> "processing_location_context",
                                 data |-> data]>>,
                              log_event("processing_location_context", data,
                                        thread.fs).written)]

\* lines 243-322: the rules on the thread's own locals; elapsed is the time
\* the clock advanced since line 199
RulesStep(thread, elapsed) ==
  LET telemetry == thread.telemetry
      rule == RoutingRules(thread.command_complexity, telemetry.network_condition,
                           telemetry.device_state)
      data == ContextEvent(thread)
  IN [thread EXCEPT !.at = "done", !.elapsed = elapsed,
                    !.outcome =
                      Returns(rule[1],
                              DecisionMetadata(rule[1], rule[2], thread.command_complexity,
                                               telemetry.network_condition,
                                               telemetry.device_state, elapsed),
                              ThreadCalls(thread),
                              <<[event_type |-> "processing_location_context",
                                 data |-> data]>>,
                              log_event("processing_location_context", data,
                                        thread.fs).written)]

\* the request-handling threads call select_processing_location at the same time
StartSelectThreads ==
  /\ pc = "idle"
  /\ threads = NoThreads
  /\ \E arguments \in [ThreadIds -> ConcurrentArguments] :
       threads' = [t \in ThreadIds |-> Activation(arguments[t])]
  /\ UNCHANGED <<pc, call, result, conversation, loaded_models, log_file>>

SelectThreadAt(t, at) == t \in DOMAIN threads /\ threads[t].at = at

ThreadForced ==
  /\ \E t \in ThreadIds :
       /\ SelectThreadAt(t, "forced_location")
       /\ threads' = [threads EXCEPT ![t] = ForcedStep(threads[t])]
  /\ UNCHANGED <<pc, call, result, conversation, loaded_models, log_file>>

ThreadMetrics ==
  /\ \E t \in ThreadIds :
       /\ SelectThreadAt(t, "metrics")
       /\ \E psutil \in (IF Truthy(threads[t].client_metrics)
                         THEN {Unread} ELSE ConcurrentPsutilReadings),
             pings \in (IF Truthy(threads[t].client_metrics)
                        THEN {Unread} ELSE ConcurrentPingReadings) :
            threads' = [threads EXCEPT ![t] = MetricsStep(threads[t], psutil, pings)]
  /\ UNCHANGED <<pc, call, result, conversation, loaded_models, log_file>>

ThreadComplexity ==
  /\ \E t \in ThreadIds :
       /\ SelectThreadAt(t, "complexity")
       /\ threads' = [threads EXCEPT ![t] = ComplexityStep(threads[t])]
  /\ UNCHANGED <<pc, call, result, conversation, loaded_models, log_file>>

\* log_event appends the thread's line to the file all threads write
ThreadLogEvent ==
  /\ \E t \in ThreadIds, fs \in FsStates :
       /\ SelectThreadAt(t, "log_event")
       /\ threads' = [threads EXCEPT ![t] = LogStep(threads[t], fs)]
       /\ log_file' = log_file \o log_event("processing_location_context",
                                            ContextEvent(threads[t]), fs).written
  /\ UNCHANGED <<pc, call, result, conversation, loaded_models>>

ThreadRules ==
  /\ \E t \in ThreadIds, elapsed \in ElapsedMs :
       /\ SelectThreadAt(t, "rules")
       /\ threads' = [threads EXCEPT ![t] = RulesStep(threads[t], elapsed)]
  /\ UNCHANGED <<pc, call, result, conversation, loaded_models, log_file>>

NextConcurrentSelect ==
  \/ StartSelectThreads
  \/ ThreadForced
  \/ ThreadMetrics
  \/ ThreadComplexity
  \/ ThreadLogEvent
  \/ ThreadRules

SpecConcurrentSelect == Init /\ [][NextConcurrentSelect]_vars

\* the call of a thread run alone on the readings the thread obtained
RunAlone(thread, elapsed) ==
  select_processing_location(thread.command_text, thread.context, thread.forced_location,
                             thread.client_metrics, thread.psutil, thread.pings,
                             thread.fs, elapsed)

SelectThreadsDone == {t \in DOMAIN threads : threads[t].at = "done"}

\* C24: under every interleaving of concurrent calls of
\* select_processing_location, what a call returns or raises (venue, reason
\* and the whole decision record) equals what the same call run alone gives
\* on the same arguments and the telemetry readings it obtained, and the
\* venue and the reason are the same for every measured decision time.
C24_ConcurrentCallsIndependent ==
  \A t \in SelectThreadsDone :
    LET thread == threads[t]
        alone == RunAlone(thread, thread.elapsed)
    IN /\ thread.outcome = alone
       /\ \A elapsed \in ElapsedMs :
            LET other == RunAlone(thread, elapsed)
            IN /\ other.raised = thread.outcome.raised
               /\ other.location = thread.outcome.location
               /\ other.raised = "none" =>
                    other.decision_metadata.reason = thread.outcome.decision_metadata.reason

\* both threads ran the automatic rules on different signals, the line of
\* the thread that returned the server venue written before the other's, and
\* the decision times differ
C24_Witness ==
  /\ SelectThreadsDone = ThreadIds
  /\ threads["t1"].outcome.raised = "none"
  /\ threads["t2"].outcome.raised = "none"
  /\ threads["t1"].outcome.location = "ProcessingLocation.LOCAL"
  /\ threads["t2"].outcome.location = "ProcessingLocation.SERVER"
  /\ threads["t1"].elapsed # threads["t2"].elapsed
  /\ Len(log_file) = 2
  /\ log_file[1].data = ContextEvent(threads["t2"])
  /\ log_file[2].data = ContextEvent(threads["t1"])
  /\ log_file[1] # log_file[2]

(***************************************************************************)
(* Concurrent calls of transition_processing_context on one conversation   *)
(* context, hybrid_router.py:324-361.  The context is the dict behind      *)
(* conversation_context; its transitions list is an object of its own on   *)
(* the heap, so that two lists created by two threads are told apart.  A   *)
(* thread switch can fall between any two of the steps below.              *)
(***************************************************************************)
ContextId == 1

\* the shared contexts the callers hold: none has a transitions list yet
SharedContexts ==
  {EmptyDict,
   PyDict("history" :> PyList(<<>>)),
   PyDict("history" :> PyList(<<PyStr("hello")>>))}

\* the venues the two callers pass
ConcurrentTransitions == [from_location : Locations, to_location : Locations]

\* line 336: the activation of a call; serialized tells that the caller
\* holds the conversation's lock for the whole call
TransitionActivation(arguments, serialized) ==
  [at |-> "context", from_location |-> arguments.from_location,
   to_location |-> arguments.to_location, serialized |-> serialized,
   conversation_context |-> PyRef(ContextId), transition_event |-> PyNone,
   missing |-> FALSE, list |-> PyNone, fs |-> "untouched", raised |-> "none"]

\* lines 338-339: a falsy context is replaced by a new one of the call's own
ContextStep(thread, objects) ==
  IF ContextTruthy(thread.conversation_context, objects)
  THEN [thread |-> [thread EXCEPT !.at = "event"], heap |-> objects]
  ELSE LET id == NewId(objects)
       IN [thread |-> [thread EXCEPT !.at = "event", !.conversation_context = PyRef(id)],
           heap |-> (id :> PyDict("history" :> PyList(<<>>))) @@ objects]

\* lines 342-346
EventStep(thread, now) ==
  [thread EXCEPT !.at = "check",
                 !.transition_event =
                   PyDict(("timestamp" :> PyNum(now))
                          @@ ("from_location" :> LocationValue(thread.from_location))
                          @@ ("to_location" :> LocationValue(thread.to_location)))]

\* variant: the list is taken for missing at every call
TransitionsMissing_Always(thread, objects) == TRUE

\* line 349: "transitions" not in conversation_context
TransitionsMissing(thread, objects) ==
  "transitions" \notin DOMAIN objects[thread.conversation_context.val].val

CheckStep(thread, objects) ==
  [thread EXCEPT !.at = IF TransitionsMissing(thread, objects) THEN "create" ELSE "subscript",
                 !.missing = TransitionsMissing(thread, objects)]

\* line 350: a new empty list is stored under "transitions"
CreateStep(thread, objects) ==
  LET id == NewId(objects)
      context == thread.conversation_context.val
  IN [thread |-> [thread EXCEPT !.at = "subscript"],
      heap |-> (id :> PyList(<<>>))
               @@ [objects EXCEPT ![context] =
                     PyDict(("transitions" :> PyRef(id)) @@ @.val)]]

\* line 351, conversation_context["transitions"]: the list stored there now
SubscriptStep(thread, objects) ==
  [thread EXCEPT !.at = "append",
                 !.list = objects[thread.conversation_context.val].val["transitions"]]

\* line 351, .append(transition_event) on the list the thread got
AppendStep(thread, objects) ==
  [thread |-> [thread EXCEPT !.at = "log_event"],
   heap |-> [objects EXCEPT ![thread.list.val] =
               PyList(Append(@.val, thread.transition_event))]]

\* lines 353-361: log_event, then the return of the context
ReturnStep(thread, fs) ==
  [thread EXCEPT !.at = "done", !.fs = fs,
                 !.raised = IF log_event("processing_location_transition",
                                         thread.transition_event, fs).raised
                            THEN "OSError" ELSE "none"]

\* two turns of one conversation reach the core at the same time
StartTransitionThreads ==
  /\ pc = "idle"
  /\ threads = NoThreads
  /\ heap = EmptyHeap
  /\ \E shared \in SharedContexts, serialized \in BOOLEAN,
        arguments \in [ThreadIds -> ConcurrentTransitions] :
       /\ heap' = (ContextId :> shared)
       /\ conversation_context' = PyRef(ContextId)
       /\ threads' = [t \in ThreadIds |-> TransitionActivation(arguments[t], serialized)]
  /\ UNCHANGED <<pc, call, result, loaded_models, log_file>>

\* thread t may take a step at `at`: with caller serialization a call starts
\* only when no other call is under way
TransitionThreadAt(t, at) ==
  /\ t \in DOMAIN threads
  /\ threads[t].at = at
  /\ (threads[t].serialized /\ at = "context") =>
       \A other \in DOMAIN threads \ {t} : threads[other].at \in {"context", "done"}

ThreadContext ==
  /\ \E t \in ThreadIds :
       /\ TransitionThreadAt(t, "context")
       /\ threads' = [threads EXCEPT ![t] = ContextStep(threads[t], heap).thread]
       /\ heap' = ContextStep(threads[t], heap).heap
  /\ UNCHANGED <<pc, call, result, conversation_context, loaded_models, log_file>>

ThreadEvent ==
  /\ \E t \in ThreadIds, now \in Timestamps :
       /\ TransitionThreadAt(t, "event")
       /\ threads' = [threads EXCEPT ![t] = EventStep(threads[t], now)]
  /\ UNCHANGED <<pc, call, result, conversation, loaded_models, log_file>>

ThreadCheck ==
  /\ \E t \in ThreadIds :
       /\ TransitionThreadAt(t, "check")
       /\ threads' = [threads EXCEPT ![t] = CheckStep(threads[t], heap)]
  /\ UNCHANGED <<pc, call, result, conversation, loaded_models, log_file>>

ThreadCreate ==
  /\ \E t \in ThreadIds :
       /\ TransitionThreadAt(t, "create")
       /\ threads' = [threads EXCEPT ![t] = CreateStep(threads[t], heap).thread]
       /\ heap' = CreateStep(threads[t], heap).heap
  /\ UNCHANGED <<pc, call, result, conversation_context, loaded_models, log_file>>

ThreadSubscript ==
  /\ \E t \in ThreadIds :
       /\ TransitionThreadAt(t, "subscript")
       /\ threads' = [threads EXCEPT ![t] = SubscriptStep(threads[t], heap)]
  /\ UNCHANGED <<pc, call, result, conversation, loaded_models, log_file>>

ThreadAppend ==
  /\ \E t \in ThreadIds :
       /\ TransitionThreadAt(t, "append")
       /\ threads' = [threads EXCEPT ![t] = AppendStep(threads[t], heap).thread]
       /\ heap' = AppendStep(threads[t], heap).heap
  /\ UNCHANGED <<pc, call, result, conversation_context, loaded_models, log_file>>

ThreadReturn ==
  /\ \E t \in ThreadIds, fs \in FsStates :
       /\ TransitionThreadAt(t, "log_event")
       /\ threads' = [threads EXCEPT ![t] = ReturnStep(threads[t], fs)]
       /\ log_file' = log_file \o log_event("processing_location_transition",
                                            threads[t].transition_event, fs).written
  /\ UNCHANGED <<pc, call, result, conversation, loaded_models>>

NextConcurrentTransitions ==
  \/ StartTransitionThreads
  \/ ThreadContext
  \/ ThreadEvent
  \/ ThreadCheck
  \/ ThreadCreate
  \/ ThreadSubscript
  \/ ThreadAppend
  \/ ThreadReturn

SpecConcurrentTransitions == Init /\ [][NextConcurrentTransitions]_vars

\* the transitions list the shared context holds now
SharedTransitions ==
  IF conversation_context.kind = "ref"
     /\ "transitions" \in DOMAIN heap[conversation_context.val].val
  THEN heap[heap[conversation_context.val].val["transitions"].val].val
  ELSE <<>>

\* the threads whose call has appended its transition
Appended == {t \in DOMAIN threads : threads[t].at \in {"log_event", "done"}}

Serialized == \A t \in DOMAIN threads : threads[t].serialized

\* the shared context has entries: line 338 takes it as it is
SharedContextKept ==
  conversation_context.kind = "ref" /\ ContextTruthy(conversation_context, heap)

\* C25: when the caller serializes the calls on a shared context that had no
\* transitions list, the context's transitions list holds the transition of
\* every call that has appended, one entry per call: no transition is lost.
C25_SerializedCallsLoseNothing ==
  Serialized =>
    /\ Len(SharedTransitions) = Cardinality(Appended)
    /\ \A t \in Appended : threads[t].transition_event \in Range(SharedTransitions)

\* C25 on a shared context that has entries: serialized calls lose nothing
C25_SerializedOnKeptContext ==
  (Serialized /\ SharedContextKept) =>
    /\ Len(SharedTransitions) = Cardinality(Appended)
    /\ \A t \in Appended : threads[t].transition_event \in Range(SharedTransitions)

\* C25, unserialized callers on a shared context that has entries: both calls
\* are done, each appended its transition to a list it created, and the
\* context's list holds one entry only: the other transition is missing
C25_LostUpdate ==
  /\ DOMAIN threads = ThreadIds
  /\ ~Serialized
  /\ SharedContextKept
  /\ \A t \in ThreadIds : threads[t].at = "done" /\ threads[t].missing
  /\ threads["t1"].transition_event # threads["t2"].transition_event
  /\ Len(SharedTransitions) = 1
  /\ \E t \in ThreadIds : threads[t].transition_event \notin Range(SharedTransitions)

====
